---- MODULE Spec2Model ----
(***************************************************************************)
(* Model of ovs_p4ctl.py: the P4Runtime streaming session                  *)
(* (P4RuntimeClient), the error decoder (P4RuntimeErrorIterator) and the   *)
(* flow parsers / entry builders behind the ovs-p4ctl commands.            *)
(*                                                                         *)
(* The specifications share the variables; each one drives its own group   *)
(* and leaves the other groups at their initial values:                    *)
(*   SpecSession / SpecSessionFair  - the duplex stream, the handshake and *)
(*                                    tear_down                            *)
(*   SpecDecoder                    - write() and the error decoder        *)
(*   SpecCmd                        - the commands, parsers and builders   *)
(*   SpecDirect                     - the entry commands on the flows      *)
(*                                    f=A,action=a(v)                      *)
(*   SpecCodec                      - single calls of the wire value codec *)
(*   SpecSchema                     - single lookups in the schema index   *)
(***************************************************************************)
EXTENDS Integers, Sequences, FiniteSets, TLC

VARIABLES
    \* ---- session (P4RuntimeClient) ----
    mainpc,        \* position of the caller thread
    session,       \* "Unconnected" | "Arbitrating" | "Master" | "Slave" | "Closed"
    stream_out_q,  \* self.stream_out_q
    stream_in_q,   \* self.stream_in_q
    wire,          \* messages the device has written to the stream, not yet read
    stream,        \* "none" | "open" | "failed" | "ended": the inbound half
    recvpc,        \* stream_recv_thread: "idle" | "running" | "done"
    genpc,         \* stream_req_iterator: "idle" | "running" | "done"
    sent,          \* requests the generator has yielded to the device
    nsent,         \* number of messages the device has sent so far
    type_,         \* get_stream_packet: the requested one-of field
    timeout,       \* get_stream_packet: its timeout argument
    elapsed,       \* get_stream_packet: time.time() - start, saturated
    caller,        \* who called get_stream_packet: "handshake" | "api"
    ret,           \* what get_stream_packet returned last
    rep,           \* handshake: its local rep
    dequeued,      \* history: everything ever taken off stream_in_q, in order
    consumed,      \* history: messages dequeued by the current call, in order
    discarded,     \* history: ids of all messages dequeued and not returned
    arrived,       \* history: everything ever put on stream_in_q, in order
    channel,       \* the attribute self.channel: "none" | "open" | "deleted"
    closes,        \* history: number of channel.close() calls
    teardowns,     \* history: number of tear_down calls
    td_exc,        \* "none" | the exception the last tear_down raised
    \* ---- write() and the error decoder ----
    wpc,           \* position inside write / write_update and the decoder
    request,       \* the WriteRequest handed to stub.Write
    grpc_error,    \* the grpc.RpcError stub.Write raised
    it_errors,     \* P4RuntimeErrorIterator.errors
    idx,           \* P4RuntimeErrorIterator.idx
    exc_errors,    \* P4RuntimeWriteException.errors, while it is built
    raised,        \* the exception write / write_update surfaced
    decoding,      \* history: P4RuntimeErrorIterator was constructed
    loops,         \* history: parity of the iterations of __next__'s while loop
    \* ---- one command of main ----
    cpc,           \* position inside the command and with_client's handle
    command,       \* sys.argv[1]
    tbl_name,      \* the TABLE argument
    given,         \* history: the pieces the flow text was written from
    flow,          \* the flow argument, a text
    client,        \* with_client's client: "none" | "up" | "down"
    parsed,        \* what the flow parser returned
    npipe,         \* history: number of get_p4info calls
    pipeline,      \* the P4Info get_p4info returned
    call,          \* arguments of a direct buildTableEntry call
    built,         \* history: "no" | "ok" | "failed", the entity builder's end
    entity,        \* the entity the builder returned
    writes,        \* history: the updates handed to the Write RPC, in order
    printed,       \* history: the lines printed
    result,        \* "none" | "returned" | the exception the command raised
    \* ---- one call of a function of the library ----
    apc,           \* "idle" | "returned" | "decoded"
    fn,            \* the function called
    arg,           \* its arguments
    out,           \* what it returned, or the exception it raised
    back           \* what the decoder made of the value returned

sessVars == << mainpc, session, stream_out_q, stream_in_q, wire, stream, recvpc,
               genpc, sent, nsent, type_, timeout, elapsed, caller, ret,
               rep, dequeued, consumed, discarded, arrived, channel, closes,
               teardowns, td_exc >>

\* The channel attribute and the history of tear_down.
chanVars == << channel, closes, teardowns, td_exc >>

decVars == << wpc, request, grpc_error, it_errors, idx, exc_errors, raised, decoding,
             loops >>

cmdVars == << cpc, command, tbl_name, given, flow, client, parsed, npipe, pipeline,
             call, built, entity, writes, printed, result >>

libVars == << apc, fn, arg, out, back >>

vars == << sessVars, decVars, cmdVars, libVars >>

\* What the actions of one group leave alone.
notSess == << decVars, cmdVars, libVars >>
notDec == << sessVars, cmdVars, libVars >>
notCmd == << sessVars, decVars, libVars >>
notLib == << sessVars, decVars, cmdVars >>

----------------------------------------------------------------------------
\* Bounds of the model
MaxMsgs == 2           \* messages the device sends on one stream
MaxMeta == 2           \* entries of the trailing metadata of a failed Write
MaxDetails == 2        \* entries of the details list of a status
MaxFields == 2         \* match fields written in a flow
MaxId == 2             \* group and member ids written in a flow
MaxTearDowns == 2      \* calls of tear_down on one client
MaxEntities == 2       \* entities of one kind in a generated P4Info
MaxWidth == 10         \* bit widths 1..MaxWidth handed to encodeNum
MaxNumber == 1100      \* numbers 0..MaxNumber handed to encodeNum

----------------------------------------------------------------------------
\* Session: messages

\* handshake: get_stream_packet("arbitration", timeout=2)
HandshakeTimeout == 2
\* get_stream_packet(self, type_, timeout=1)
DefaultTimeout == 1

Kinds == {"arbitration", "packet"}
Codes == {"OK", "ALREADY_EXISTS"}

\* The None sentinel of the queues.
NoneMsg == [id |-> 0, kind |-> "None", code |-> "OK"]

\* The StreamMessageRequest of handshake().
ArbitrationRequest == [kind |-> "arbitration", device_id |-> 1, election_id |-> <<1, 0>>]

\* A StreamMessageResponse; a message without arbitration field reads
\* arbitration.status.code as the protobuf default, OK.
ServerMessages(i) ==
    { [id |-> i, kind |-> "arbitration", code |-> c] : c \in Codes }
        \cup { [id |-> i, kind |-> "packet", code |-> "OK"] }

\* msg.HasField(type_)
HasField(msg, t) == msg.kind = t

----------------------------------------------------------------------------
\* Session: get_stream_packet and handshake as functions of what they read

\* get_stream_packet without its HasField test: the first message dequeued is
\* returned whatever it carries.
GetStreamPacketStep_NoFilter(q, el, to, t) ==
    LET remaining == to - el IN
    IF remaining < 0
    THEN [act |-> "return", ret |-> NoneMsg, q |-> q, took |-> <<>>]
    ELSE IF q = <<>>
    THEN IF remaining <= 0
         THEN [act |-> "return", ret |-> NoneMsg, q |-> q, took |-> <<>>]
         ELSE [act |-> "wait", ret |-> NoneMsg, q |-> q, took |-> <<>>]
    ELSE [act |-> "return", ret |-> Head(q), q |-> Tail(q), took |-> <<Head(q)>>]

\* One iteration of the loop of get_stream_packet on queue q with
\* el = time.time() - start: what the iteration does ("return", "continue",
\* or "wait" when Queue.get blocks), the value returned and the queue left.
GetStreamPacketStep(q, el, to, t) ==
    LET remaining == to - el IN
    IF remaining < 0
    THEN [act |-> "return", ret |-> NoneMsg, q |-> q, took |-> <<>>]
    ELSE IF q = <<>>
    THEN IF remaining <= 0
         THEN [act |-> "return", ret |-> NoneMsg, q |-> q, took |-> <<>>]  \* queue.Empty
         ELSE [act |-> "wait", ret |-> NoneMsg, q |-> q, took |-> <<>>]
    ELSE LET msg == Head(q) IN
         IF msg = NoneMsg
         THEN [act |-> "return", ret |-> NoneMsg, q |-> Tail(q), took |-> <<msg>>]
         ELSE IF ~HasField(msg, t)
         THEN [act |-> "continue", ret |-> NoneMsg, q |-> Tail(q), took |-> <<msg>>]
         ELSE [act |-> "return", ret |-> msg, q |-> Tail(q), took |-> <<msg>>]

\* handshake taking every arbitration message as a grant of mastership.
IsMaster_AnyArbitration(r) == r.kind = "arbitration"

\* handshake: is_master = rep.arbitration.status.code == code_pb2.OK
IsMaster(r) == r.code = "OK"

\* handshake, after get_stream_packet returned r: sys.exit(1) on None, else the
\* session is master or slave and construction goes on.
HandshakeOutcome(r) ==
    IF r = NoneMsg THEN "exit"
    ELSE IF IsMaster(r) THEN "Master" ELSE "Slave"

----------------------------------------------------------------------------
\* Session: the caller thread

SessInit ==
    /\ mainpc = "new"
    /\ session = "Unconnected"
    /\ stream_out_q = <<>>
    /\ stream_in_q = <<>>
    /\ wire = <<>>
    /\ stream = "none"
    /\ recvpc = "idle"
    /\ genpc = "idle"
    /\ sent = <<>>
    /\ nsent = 0
    /\ type_ = "arbitration"
    /\ timeout = HandshakeTimeout
    /\ elapsed = 0
    /\ caller = "handshake"
    /\ ret = NoneMsg
    /\ rep = NoneMsg
    /\ dequeued = <<>>
    /\ consumed = <<>>
    /\ discarded = {}
    /\ arrived = <<>>
    /\ channel = "none"
    /\ closes = 0
    /\ teardowns = 0
    /\ td_exc = "none"

\* __init__ and set_up_stream up to the call of handshake(): the queues exist,
\* StreamChannel is open with the generator as its request iterator and the
\* receiver thread is started.
Construct ==
    /\ mainpc = "new"
    /\ mainpc' = "handshake"
    /\ session' = "Arbitrating"
    /\ stream' = "open"
    /\ recvpc' = "running"
    /\ genpc' = "running"
    /\ channel' = "open"
    /\ UNCHANGED << stream_out_q, stream_in_q, wire, sent, nsent, type_, timeout,
                    elapsed, caller, ret, rep, dequeued, consumed, discarded,
                    arrived, closes, teardowns, td_exc >>
    /\ UNCHANGED notSess

\* Entry of get_stream_packet(t, timeout=to): start = time.time()
EnterGetStreamPacket(t, to, who) ==
    /\ mainpc' = "gsp"
    /\ type_' = t
    /\ timeout' = to
    /\ elapsed' = 0
    /\ caller' = who
    /\ consumed' = <<>>

\* handshake: stream_out_q.put(req); get_stream_packet("arbitration", timeout=2)
HandshakePut ==
    /\ mainpc = "handshake"
    /\ stream_out_q' = Append(stream_out_q, ArbitrationRequest)
    /\ EnterGetStreamPacket("arbitration", HandshakeTimeout, "handshake")
    /\ UNCHANGED << session, stream_in_q, wire, stream, recvpc, genpc, sent, nsent,
                    ret, rep, dequeued, discarded, arrived >>
    /\ UNCHANGED chanVars
    /\ UNCHANGED notSess

\* One iteration of the loop of get_stream_packet.
GetStreamPacket ==
    /\ mainpc = "gsp"
    /\ LET r == GetStreamPacketStep(stream_in_q, elapsed, timeout, type_) IN
        /\ r.act # "wait"
        /\ stream_in_q' = r.q
        /\ consumed' = consumed \o r.took
        /\ dequeued' = dequeued \o r.took
        /\ IF r.act = "return"
           THEN /\ mainpc' = "gsp_ret"
                /\ ret' = r.ret
                /\ discarded' = discarded \cup
                       { m.id : m \in { r.took[i] : i \in 1..Len(r.took) } \ {r.ret} }
           ELSE /\ mainpc' = "gsp"
                /\ ret' = ret
                /\ discarded' = discarded \cup { r.took[i].id : i \in 1..Len(r.took) }
    /\ UNCHANGED << session, stream_out_q, wire, stream, recvpc, genpc, sent,
                    nsent, type_, timeout, elapsed, caller, rep, arrived >>
    /\ UNCHANGED chanVars
    /\ UNCHANGED notSess

\* time.time() advances while get_stream_packet runs; every value above the
\* timeout gives remaining < 0, so the clock saturates there.
Tick ==
    /\ mainpc = "gsp"
    /\ elapsed <= timeout
    /\ elapsed' = elapsed + 1
    /\ UNCHANGED << mainpc, session, stream_out_q, stream_in_q, wire, stream,
                    recvpc, genpc, sent, nsent, type_, timeout, caller, ret, rep,
                    dequeued, consumed, discarded, arrived >>
    /\ UNCHANGED chanVars
    /\ UNCHANGED notSess

\* handshake after get_stream_packet returned.
HandshakeFinish ==
    /\ mainpc = "gsp_ret"
    /\ caller = "handshake"
    /\ rep' = ret
    /\ LET o == HandshakeOutcome(ret) IN
        IF o = "exit"
        THEN /\ mainpc' = "exiting"          \* sys.exit(1): SystemExit raised
             /\ session' = session
        ELSE /\ mainpc' = "ready"
             /\ session' = o
    /\ UNCHANGED << stream_out_q, stream_in_q, wire, stream, recvpc, genpc, sent,
                    nsent, type_, timeout, elapsed, caller, ret, dequeued,
                    consumed, discarded, arrived >>
    /\ UNCHANGED chanVars
    /\ UNCHANGED notSess

\* SystemExit leaves main(): the interpreter joins every non-daemon thread
\* (stream_recv_thread is one) before the process ends.
ProcessExit ==
    /\ mainpc = "exiting"
    /\ recvpc = "done"
    /\ mainpc' = "terminated"
    /\ UNCHANGED << session, stream_out_q, stream_in_q, wire, stream, recvpc,
                    genpc, sent, nsent, type_, timeout, elapsed, caller, ret, rep,
                    dequeued, consumed, discarded, arrived >>
    /\ UNCHANGED chanVars
    /\ UNCHANGED notSess

\* A later call of the public method get_stream_packet on the session.
ApiGetStreamPacket ==
    /\ mainpc = "ready"
    /\ \E t \in Kinds, to \in {DefaultTimeout, HandshakeTimeout} :
           EnterGetStreamPacket(t, to, "api")
    /\ UNCHANGED << session, stream_out_q, stream_in_q, wire, stream, recvpc,
                    genpc, sent, nsent, ret, rep, dequeued, discarded, arrived >>
    /\ UNCHANGED chanVars
    /\ UNCHANGED notSess

ApiReturn ==
    /\ mainpc = "gsp_ret"
    /\ caller = "api"
    /\ mainpc' = "ready"
    /\ UNCHANGED << session, stream_out_q, stream_in_q, wire, stream, recvpc,
                    genpc, sent, nsent, type_, timeout, elapsed, caller, ret, rep,
                    dequeued, consumed, discarded, arrived >>
    /\ UNCHANGED chanVars
    /\ UNCHANGED notSess

\* tear_down, called on a client whose constructor returned, for the first
\* time or again: a Queue object is true, so self.stream_out_q.put(None)
TearDownPut ==
    /\ mainpc \in {"ready", "closed"}
    /\ teardowns < MaxTearDowns
    /\ teardowns' = teardowns + 1
    /\ td_exc' = "none"
    /\ stream_out_q' = Append(stream_out_q, NoneMsg)
    /\ mainpc' = "td_join"
    /\ UNCHANGED << session, stream_in_q, wire, stream, recvpc, genpc, sent, nsent,
                    type_, timeout, elapsed, caller, ret, rep, dequeued, consumed,
                    discarded, arrived, channel, closes >>
    /\ UNCHANGED notSess

\* tear_down without its join: the channel is closed at once.
TearDownJoin_NoWait ==
    /\ mainpc = "td_join"
    /\ mainpc' = "td_close"
    /\ UNCHANGED << session, stream_out_q, stream_in_q, wire, stream, recvpc,
                    genpc, sent, nsent, type_, timeout, elapsed, caller, ret, rep,
                    dequeued, consumed, discarded, arrived >>
    /\ UNCHANGED chanVars
    /\ UNCHANGED notSess

\* tear_down: self.stream_recv_thread.join()
TearDownJoin ==
    /\ mainpc = "td_join"
    /\ recvpc = "done"
    /\ mainpc' = "td_close"
    /\ UNCHANGED << session, stream_out_q, stream_in_q, wire, stream, recvpc,
                    genpc, sent, nsent, type_, timeout, elapsed, caller, ret, rep,
                    dequeued, consumed, discarded, arrived >>
    /\ UNCHANGED chanVars
    /\ UNCHANGED notSess

\* tear_down: self.channel.close(); del self.channel. Once the attribute is
\* deleted, reading self.channel raises AttributeError.
TearDownClose ==
    /\ mainpc = "td_close"
    /\ mainpc' = "closed"
    /\ IF channel = "open"
       THEN /\ channel' = "deleted"
            /\ closes' = closes + 1
            /\ session' = "Closed"
            /\ UNCHANGED td_exc
       ELSE /\ td_exc' = "AttributeError"
            /\ UNCHANGED << channel, closes, session >>
    /\ UNCHANGED << stream_out_q, stream_in_q, wire, stream, recvpc, genpc, sent,
                    nsent, type_, timeout, elapsed, caller, ret, rep, dequeued,
                    consumed, discarded, arrived, teardowns >>
    /\ UNCHANGED notSess

----------------------------------------------------------------------------
\* Session: the receiver thread, the request generator and the device

\* stream_recv whose put waits until a get_stream_packet is reading the queue
RecvMessage_Blocking ==
    /\ recvpc = "running"
    /\ wire # <<>>
    /\ mainpc = "gsp"
    /\ stream_in_q' = Append(stream_in_q, Head(wire))
    /\ arrived' = Append(arrived, Head(wire))
    /\ wire' = Tail(wire)
    /\ UNCHANGED << mainpc, session, stream_out_q, stream, recvpc, genpc, sent,
                    nsent, type_, timeout, elapsed, caller, ret, rep, dequeued,
                    consumed, discarded >>
    /\ UNCHANGED chanVars
    /\ UNCHANGED notSess

\* stream_recv: for p in stream: self.stream_in_q.put(p)
RecvMessage ==
    /\ recvpc = "running"
    /\ wire # <<>>
    /\ stream_in_q' = Append(stream_in_q, Head(wire))
    /\ arrived' = Append(arrived, Head(wire))
    /\ wire' = Tail(wire)
    /\ UNCHANGED << mainpc, session, stream_out_q, stream, recvpc, genpc, sent,
                    nsent, type_, timeout, elapsed, caller, ret, rep, dequeued,
                    consumed, discarded >>
    /\ UNCHANGED chanVars
    /\ UNCHANGED notSess

\* stream_recv_wrapper whose except clause puts nothing
RecvFailure_NoSentinel ==
    /\ recvpc = "running"
    /\ wire = <<>>
    /\ stream = "failed"
    /\ recvpc' = "done"
    /\ UNCHANGED << mainpc, session, stream_out_q, stream_in_q, wire, stream, genpc,
                    sent, nsent, type_, timeout, elapsed, caller, ret, rep, dequeued,
                    consumed, discarded, arrived >>
    /\ UNCHANGED chanVars
    /\ UNCHANGED notSess

\* stream_recv_wrapper: the stream raised; self.stream_in_q.put(None), return
RecvFailure ==
    /\ recvpc = "running"
    /\ wire = <<>>
    /\ stream = "failed"
    /\ stream_in_q' = Append(stream_in_q, NoneMsg)
    /\ arrived' = Append(arrived, NoneMsg)
    /\ recvpc' = "done"
    /\ UNCHANGED << mainpc, session, stream_out_q, wire, stream, genpc, sent,
                    nsent, type_, timeout, elapsed, caller, ret, rep, dequeued,
                    consumed, discarded >>
    /\ UNCHANGED chanVars
    /\ UNCHANGED notSess

\* stream_recv: the for loop ends with the stream; nothing is put
RecvEnd ==
    /\ recvpc = "running"
    /\ wire = <<>>
    /\ stream = "ended"
    /\ recvpc' = "done"
    /\ UNCHANGED << mainpc, session, stream_out_q, stream_in_q, wire, stream,
                    genpc, sent, nsent, type_, timeout, elapsed, caller, ret, rep,
                    dequeued, consumed, discarded, arrived >>
    /\ UNCHANGED chanVars
    /\ UNCHANGED notSess

\* stream_req_iterator that takes a request off the queue and yields nothing
StreamReqIterator_Drop ==
    /\ genpc = "running"
    /\ stream = "open"
    /\ stream_out_q # <<>>
    /\ stream_out_q' = Tail(stream_out_q)
    /\ genpc' = IF Head(stream_out_q) = NoneMsg THEN "done" ELSE genpc
    /\ UNCHANGED << mainpc, session, stream_in_q, wire, stream, recvpc, sent, nsent,
                    type_, timeout, elapsed, caller, ret, rep, dequeued, consumed,
                    discarded, arrived >>
    /\ UNCHANGED chanVars
    /\ UNCHANGED notSess

\* stream_req_iterator: p = self.stream_out_q.get(); break on None, else yield p
StreamReqIterator ==
    /\ genpc = "running"
    /\ stream = "open"
    /\ stream_out_q # <<>>
    /\ stream_out_q' = Tail(stream_out_q)
    /\ IF Head(stream_out_q) = NoneMsg
       THEN genpc' = "done" /\ sent' = sent
       ELSE genpc' = genpc /\ sent' = Append(sent, Head(stream_out_q))
    /\ UNCHANGED << mainpc, session, stream_in_q, wire, stream, recvpc, nsent,
                    type_, timeout, elapsed, caller, ret, rep, dequeued, consumed,
                    discarded, arrived >>
    /\ UNCHANGED chanVars
    /\ UNCHANGED notSess

\* The device writes a message to the stream.
DeviceSend ==
    /\ stream = "open"
    /\ nsent < MaxMsgs
    /\ \E m \in ServerMessages(nsent + 1) : wire' = Append(wire, m)
    /\ nsent' = nsent + 1
    /\ UNCHANGED << mainpc, session, stream_out_q, stream_in_q, stream, recvpc,
                    genpc, sent, type_, timeout, elapsed, caller, ret, rep,
                    dequeued, consumed, discarded, arrived >>
    /\ UNCHANGED chanVars
    /\ UNCHANGED notSess

\* The stream breaks (unreachable endpoint, device error): grpc.RpcError.
DeviceFail ==
    /\ stream = "open"
    /\ stream' = "failed"
    /\ UNCHANGED << mainpc, session, stream_out_q, stream_in_q, wire, recvpc,
                    genpc, sent, nsent, type_, timeout, elapsed, caller, ret, rep,
                    dequeued, consumed, discarded, arrived >>
    /\ UNCHANGED chanVars
    /\ UNCHANGED notSess

\* The device ends the stream in good order.
DeviceEnd ==
    /\ stream = "open"
    /\ stream' = "ended"
    /\ UNCHANGED << mainpc, session, stream_out_q, stream_in_q, wire, recvpc,
                    genpc, sent, nsent, type_, timeout, elapsed, caller, ret, rep,
                    dequeued, consumed, discarded, arrived >>
    /\ UNCHANGED chanVars
    /\ UNCHANGED notSess

SessNext ==
    \/ Construct
    \/ HandshakePut
    \/ GetStreamPacket
    \/ Tick
    \/ HandshakeFinish
    \/ ProcessExit
    \/ ApiGetStreamPacket
    \/ ApiReturn
    \/ TearDownPut
    \/ TearDownJoin
    \/ TearDownClose
    \/ RecvMessage
    \/ RecvFailure
    \/ RecvEnd
    \/ StreamReqIterator
    \/ DeviceSend
    \/ DeviceFail
    \/ DeviceEnd

----------------------------------------------------------------------------
\* write(), write_update() and the error decoder

\* grpc.StatusCode of a failed Write
StatusCodes == {"UNKNOWN", "PERMISSION_DENIED", "UNAVAILABLE"}

\* One entry of status.details: an Any that unpacks to a p4.Error with a
\* canonical code and a message, or an Any of some other type.
DetailEntries ==
    { [p4error |-> TRUE, canonical_code |-> "OK", message |-> ""],
      [p4error |-> TRUE, canonical_code |-> "NOT_FOUND", message |-> "no entry"],
      [p4error |-> FALSE, canonical_code |-> "OK", message |-> ""] }

SeqsUpTo(S, n) == UNION { [1..k -> S] : k \in 0..n }

DetailsLists == SeqsUpTo(DetailEntries, MaxDetails)

\* One (key, value) pair of trailing_metadata(); the value of a
\* "grpc-status-details-bin" pair is given as the status it parses to.
MetaEntries ==
    { [key |-> "grpc-status-details-bin", details |-> d] : d \in DetailsLists }
        \cup { [key |-> "content-type", details |-> <<>>] }

RpcErrors ==
    { [code |-> c, details |-> "failed", trailing_metadata |-> md] :
          c \in StatusCodes, md \in SeqsUpTo(MetaEntries, MaxMeta) }

NoException == [type |-> "none", code |-> "OK", message |-> "", errors |-> <<>>]

\* The scan without its break: the last binary status-details pair wins.
RECURSIVE ScanMetadata_NoBreak(_, _)
ScanMetadata_NoBreak(md, i) ==
    IF i > Len(md) THEN [found |-> FALSE, details |-> <<>>]
    ELSE LET rest == ScanMetadata_NoBreak(md, i + 1) IN
         IF rest.found THEN rest
         ELSE IF md[i].key = "grpc-status-details-bin"
         THEN [found |-> TRUE, details |-> md[i].details]
         ELSE rest

\* P4RuntimeErrorIterator.__init__: the for loop over trailing_metadata from
\* position i; the status of the first "grpc-status-details-bin" pair (break),
\* or no status (error is None).
RECURSIVE ScanMetadata(_, _)
ScanMetadata(md, i) ==
    IF i > Len(md) THEN [found |-> FALSE, details |-> <<>>]
    ELSE IF md[i].key = "grpc-status-details-bin"
    THEN [found |-> TRUE, details |-> md[i].details]
    ELSE ScanMetadata(md, i + 1)

\* P4RuntimeErrorIterator.__init__: what it raises, or the errors it keeps.
IteratorInit(e) ==
    LET error == ScanMetadata(e.trailing_metadata, 1) IN
    IF ~error.found
    THEN [raise |-> TRUE, message |-> "No binary details field", errors |-> <<>>]
    ELSE IF Len(error.details) = 0
    THEN [raise |-> TRUE,
          message |-> "Binary details field has empty Any details repeated field",
          errors |-> <<>>]
    ELSE [raise |-> FALSE, message |-> "", errors |-> error.details]

\* P4RuntimeErrorIterator.__next__: one iteration of its while loop on
\* self.errors = errs and self.idx = i.
IteratorStep(errs, i) ==
    IF ~(i < Len(errs))
    THEN [act |-> "stop", idx |-> i, v |-> <<>>]              \* StopIteration
    ELSE LET p4_error == errs[i + 1] IN
         IF ~p4_error.p4error
         THEN [act |-> "raise", idx |-> i, v |-> <<>>]
         ELSE IF p4_error.canonical_code = "OK"
         THEN [act |-> "continue", idx |-> i, v |-> <<>>]     \* idx is not advanced
         ELSE [act |-> "return", idx |-> i + 1,
               v |-> << [index |-> i, canonical_code |-> p4_error.canonical_code,
                         message |-> p4_error.message] >>]

\* handle with its test of the status code inverted.
IsBatchError_Inverted(e) == e.code # "UNKNOWN"

\* parse_p4runtime_write_error.handle: which way an RpcError goes.
IsBatchError(e) == e.code = "UNKNOWN"

DecIdle ==
    /\ wpc = "idle"
    /\ request = [device_id |-> 0, election_id |-> <<0, 0>>, updates |-> <<>>]
    /\ grpc_error = [code |-> "OK", details |-> "", trailing_metadata |-> <<>>]
    /\ it_errors = <<>>
    /\ idx = 0
    /\ exc_errors = <<>>
    /\ raised = NoException
    /\ decoding = FALSE
    /\ loops = 0

\* write(req) / write_update(update): the request is stamped with device_id and
\* election_id and handed to stub.Write, which returns or raises an RpcError.
Write ==
    /\ wpc = "idle"
    /\ \E m \in {"write", "write_update"} :
           request' = [device_id |-> 1, election_id |-> <<1, 0>>,
                       updates |-> << m >>]
    /\ \/ /\ wpc' = "returned"
          /\ grpc_error' = grpc_error
       \/ /\ wpc' = "handle"
          /\ grpc_error' \in RpcErrors
    /\ UNCHANGED << it_errors, idx, exc_errors, raised, decoding, loops >>
    /\ UNCHANGED notDec

\* handle: except grpc.RpcError as e: raise e unless its code is UNKNOWN;
\* else P4RuntimeWriteException(e) is constructed: self.errors = [].
HandleRpcError ==
    /\ wpc = "handle"
    /\ IF IsBatchError(grpc_error)
       THEN /\ wpc' = "iter_init"
            /\ exc_errors' = <<>>
            /\ raised' = raised
       ELSE /\ wpc' = "raised"
            /\ raised' = [type |-> "RpcError", code |-> grpc_error.code,
                          message |-> grpc_error.details, errors |-> <<>>]
            /\ exc_errors' = exc_errors
    /\ UNCHANGED << request, grpc_error, it_errors, idx, decoding, loops >>
    /\ UNCHANGED notDec

\* P4RuntimeErrorIterator(grpc_error)
ErrorIteratorInit ==
    /\ wpc = "iter_init"
    /\ decoding' = TRUE
    /\ LET r == IteratorInit(grpc_error) IN
        IF r.raise
        THEN /\ wpc' = "raised"
             /\ raised' = [type |-> "P4RuntimeErrorFormatException", code |-> "OK",
                           message |-> r.message, errors |-> <<>>]
             /\ UNCHANGED << it_errors, idx >>
        ELSE /\ wpc' = "iter"
             /\ it_errors' = r.errors
             /\ idx' = 0
             /\ raised' = raised
    /\ UNCHANGED << request, grpc_error, exc_errors, loops >>
    /\ UNCHANGED notDec

\* for error_tuple in error_iterator: self.errors.append(error_tuple); one
\* iteration of the while loop of __next__.  At the end of the iteration the
\* constructor of P4RuntimeWriteException returns and the exception is raised.
ErrorIteratorNext ==
    /\ wpc = "iter"
    /\ loops' = 1 - loops
    /\ LET r == IteratorStep(it_errors, idx) IN
        /\ idx' = r.idx
        /\ exc_errors' = exc_errors \o r.v
        /\ CASE r.act = "stop" ->
                   /\ wpc' = "raised"
                   /\ raised' = [type |-> "P4RuntimeWriteException", code |-> "OK",
                                 message |-> "", errors |-> exc_errors]
             [] r.act = "raise" ->
                   /\ wpc' = "raised"
                   /\ raised' = [type |-> "P4RuntimeErrorFormatException",
                                 code |-> "OK",
                                 message |-> "Cannot convert Any message to p4.Error",
                                 errors |-> <<>>]
             [] OTHER ->
                   /\ wpc' = wpc
                   /\ raised' = raised
    /\ UNCHANGED << request, grpc_error, it_errors, decoding >>
    /\ UNCHANGED notDec

\* The caller has seen the outcome; the next write starts afresh.
WriteDone ==
    /\ wpc \in {"returned", "raised"}
    /\ wpc' = "idle"
    /\ request' = [device_id |-> 0, election_id |-> <<0, 0>>, updates |-> <<>>]
    /\ grpc_error' = [code |-> "OK", details |-> "", trailing_metadata |-> <<>>]
    /\ it_errors' = <<>>
    /\ idx' = 0
    /\ exc_errors' = <<>>
    /\ raised' = NoException
    /\ decoding' = FALSE
    /\ loops' = 0
    /\ UNCHANGED notDec

DecNext ==
    \/ Write
    \/ HandleRpcError
    \/ ErrorIteratorInit
    \/ ErrorIteratorNext
    \/ WriteDone

----------------------------------------------------------------------------
\* Texts (Python str) are sequences of one-character strings; byte strings
\* are sequences of numbers 0..255.

Digits == {"0", "1", "2", "3", "4", "5", "6", "7", "8", "9"}

HexDigitSeq == << "0", "1", "2", "3", "4", "5", "6", "7", "8", "9",
                  "a", "b", "c", "d", "e", "f" >>

\* int(c) of a decimal digit c
DigitVal(c) == CHOOSE v \in 0..9 : HexDigitSeq[v + 1] = c

\* A value returned, or the exception raised instead.
Ok(v) == [exc |-> "none", val |-> v]
Raise(e) == [exc |-> e, val |-> <<>>]

\* F of the value r returned, or the exception r raised.
Bind(r, F(_)) == IF r.exc # "none" THEN r ELSE F(r.val)

\* sub occurs in s at position i
MatchesAt(s, sub, i) ==
    /\ i + Len(sub) - 1 <= Len(s)
    /\ \A j \in 1..Len(sub) : s[i + j - 1] = sub[j]

\* s.find(sub), counted from 1; 0 when sub does not occur (Python: -1)
Find(s, sub) ==
    LET hits == { i \in 1..Len(s) : MatchesAt(s, sub, i) } IN
    IF hits = {} THEN 0 ELSE CHOOSE i \in hits : \A j \in hits : i <= j

\* s.split(sep) for a non-empty separator
RECURSIVE Split(_, _)
Split(s, sep) ==
    LET i == Find(s, sep) IN
    IF i = 0 THEN << s >>
    ELSE << SubSeq(s, 1, i - 1) >> \o Split(SubSeq(s, i + Len(sep), Len(s)), sep)

\* str.isdigit(s)
IsDigit(s) == s # <<>> /\ \A i \in 1..Len(s) : s[i] \in Digits

\* The number a string of decimal digits denotes.
RECURSIVE DecValue(_)
DecValue(s) ==
    IF s = <<>> THEN 0 ELSE 10 * DecValue(SubSeq(s, 1, Len(s) - 1)) + DigitVal(s[Len(s)])

\* int(s) of a text: ValueError unless s is a decimal numeral (signs, blanks
\* and underscores do not occur in the texts of the model)
PyInt(s) == IF IsDigit(s) THEN Ok(DecValue(s)) ELSE Raise("ValueError")

\* str(n) of a number n >= 0
RECURSIVE PyStr(_)
PyStr(n) == IF n < 10 THEN << HexDigitSeq[n + 1] >>
          ELSE PyStr(n \div 10) \o << HexDigitSeq[(n % 10) + 1] >>

\* The texts of s joined by sep: sep.join(s)
RECURSIVE Join(_, _)
Join(s, sep) ==
    IF s = <<>> THEN <<>>
    ELSE IF Len(s) = 1 THEN s[1]
    ELSE s[1] \o sep \o Join(Tail(s), sep)

----------------------------------------------------------------------------
\* Wire value codec

\* bitwidthToBytes: int(math.ceil(bitwidth / 8.0))
bitwidthToBytes(bitwidth) == (bitwidth + 7) \div 8

\* "%x" % number
RECURSIVE HexStr(_)
HexStr(n) == IF n < 16 THEN << HexDigitSeq[n + 1] >>
             ELSE HexStr(n \div 16) \o << HexDigitSeq[(n % 16) + 1] >>

\* value of one hex digit, either case
HexVal(c) ==
    CASE c = "A" -> 10 [] c = "B" -> 11 [] c = "C" -> 12
      [] c = "D" -> 13 [] c = "E" -> 14 [] c = "F" -> 15
      [] OTHER -> (CHOOSE v \in 0..15 : HexDigitSeq[v + 1] = c)

IsHexDigit(c) == c \in { HexDigitSeq[i] : i \in 1..16 } \cup {"A", "B", "C", "D", "E", "F"}

\* codecs.decode(val, "hex_codec") of an even number of hex digits
RECURSIVE HexDecode(_)
HexDecode(val) ==
    IF val = <<>> THEN <<>>
    ELSE << 16 * HexVal(val[1]) + HexVal(val[2]) >> \o HexDecode(SubSeq(val, 3, Len(val)))

Zeros(n) == [i \in 1..n |-> "0"]

\* a test against the bytes the width rounds up to
TooWide_Bytes(number, bitwidth) ==
    bitwidth < 24 /\ number >= 2 ^ (8 * ((bitwidth + 7) \div 8))

\* number >= 2**bitwidth; the numbers of the model are below 2^31, so that
\* the test is false from 31 bits on.
TooWide(number, bitwidth) == bitwidth < 31 /\ number >= 2 ^ bitwidth

\* encodeNum(number, bitwidth)
encodeNum(number, bitwidth) ==
    LET byte_len == bitwidthToBytes(bitwidth)
        num_str == HexStr(number)
    IN  IF TooWide(number, bitwidth)
        THEN Raise("Exception")               \* does not fit in bitwidth bits
        ELSE Ok(HexDecode(Zeros(byte_len * 2 - Len(num_str)) \o num_str))

\* the bytes read least significant first
RECURSIVE decodeNum_LittleEndian(_)
decodeNum_LittleEndian(b) ==
    IF b = <<>> THEN 0 ELSE b[1] + 256 * decodeNum_LittleEndian(Tail(b))

\* decodeNum(encoded_number)
RECURSIVE decodeNum(_)
decodeNum(b) ==
    IF b = <<>> THEN 0 ELSE 256 * decodeNum(SubSeq(b, 1, Len(b) - 1)) + b[Len(b)]

\* mac_pattern: ^([\da-fA-F]{2}:){5}([\da-fA-F]{2})$
matchesMac(x) ==
    /\ Len(x) = 17
    /\ \A i \in 1..17 : IF i % 3 = 0 THEN x[i] = ":" ELSE IsHexDigit(x[i])

\* encodeMac: the hex digits without the colons, decoded
encodeMac(x) == HexDecode(SelectSeq(x, LAMBDA c : c # ":"))

\* ip_pattern: ^(\d{1,3}\.){3}(\d{1,3})$, on the parts between the dots
IsDottedQuad(parts) ==
    /\ Len(parts) = 4
    /\ \A i \in 1..4 : IsDigit(parts[i]) /\ Len(parts[i]) <= 3

\* a pattern that accepts no text
matchesIPv4_Never(x) == FALSE

matchesIPv4(x) == IsDottedQuad(Split(x, << "." >>))

\* The number a string of octal digits denotes.
RECURSIVE OctValue(_)
OctValue(s) ==
    IF s = <<>> THEN 0 ELSE 8 * OctValue(SubSeq(s, 1, Len(s) - 1)) + DigitVal(s[Len(s)])

\* One part of an address as inet_aton reads it: a numeral with a leading 0
\* is octal, and is illegal (-1) when it holds an 8 or a 9.
InetPart(part) ==
    IF Len(part) > 1 /\ part[1] = "0"
    THEN IF \E i \in 1..Len(part) : part[i] \in {"8", "9"} THEN -1 ELSE OctValue(part)
    ELSE DecValue(part)

\* socket.inet_aton of the four parts; OSError (illegal IP address string)
\* when a part is illegal or above 255
InetAton(parts) ==
    IF \E i \in 1..4 : InetPart(parts[i]) \notin 0..255
    THEN Raise("OSError")
    ELSE Ok([i \in 1..4 |-> InetPart(parts[i])])

\* encodeIPv4: socket.inet_aton of a text the pattern accepts
encodeIPv4(x) == InetAton(Split(x, << "." >>))

\* decodeIPv4: socket.inet_ntoa of four bytes, OSError of any other length
decodeIPv4(encoded_ip_addr) ==
    IF Len(encoded_ip_addr) # 4 THEN Raise("OSError")
    ELSE Ok(Join([i \in 1..4 |-> PyStr(encoded_ip_addr[i])], << "." >>))

\* encodeIPv4_base10: struct.unpack("!L", inet_aton(x))[0]
encodeIPv4_base10(x) == Bind(encodeIPv4(x), LAMBDA packedIP : Ok(decodeNum(packedIP)))

\* Values handed to encode(): a text, a number, or a tuple of two values.
StrV(s) == [t |-> "str", s |-> s, n |-> 0, pl |-> 0]
IntV(n) == [t |-> "int", s |-> <<>>, n |-> n, pl |-> 0]
\* the pair (s, pl) parse_match_key makes of "s/pl"
TupV(s, pl) == [t |-> "tuple", s |-> s, n |-> 0, pl |-> pl]

\* encode takes a text that is neither a MAC, an IPv4 address nor a numeral
\* as already encoded and returns the str itself.
EncodedAsIs(x) == x.t = "str" /\ ~matchesMac(x.s) /\ ~matchesIPv4(x.s) /\ ~IsDigit(x.s)

\* encode without its assert
AssertLen_Off(encoded_bytes, byte_len) == encoded_bytes

\* The assert of encode: len(encoded_bytes) == byte_len
AssertLen(encoded_bytes, byte_len) ==
    IF encoded_bytes.exc = "none" /\ Len(encoded_bytes.val) # byte_len
    THEN Raise("AssertionError")
    ELSE encoded_bytes

\* The number of a numeral or of an int
NumberOf(x) == IF x.t = "str" THEN DecValue(x.s) ELSE x.n

\* encode(x, bitwidth): what it returns, or the exception it raises.
encode(x, bitwidth) ==
    AssertLen(IF x.t = "str" /\ matchesMac(x.s) THEN Ok(encodeMac(x.s))
              ELSE IF x.t = "str" /\ matchesIPv4(x.s) THEN encodeIPv4(x.s)
              ELSE IF x.t = "int" \/ (x.t = "str" /\ IsDigit(x.s))
                   THEN encodeNum(NumberOf(x), bitwidth)
              ELSE IF x.t = "str" THEN Ok(x.s)
              ELSE Raise("Exception"),        \* Encoding objects of ... is not supported
              bitwidthToBytes(bitwidth))

\* A bytes field of a protobuf message refuses a str with TypeError.
SetBytes(r, x) == IF r.exc = "none" /\ EncodedAsIs(x) THEN Raise("TypeError") ELSE r

\* field = encode(x, bitwidth) for a bytes field
BytesField(x, bitwidth) == SetBytes(encode(x, bitwidth), x)

----------------------------------------------------------------------------
\* Schema index (P4InfoHelper)

\* The P4Info of the device: one table t (alias T) with an EXACT field f and
\* an LPM field g of 8 bits each, one action a (alias A) with one parameter p
\* of 8 bits, and one action profile s (alias S).
P4Info ==
    [ tables |-> <<
          [ preamble |-> [id |-> 11, name |-> << "t" >>, alias |-> << "T" >>],
            match_fields |-> <<
                [id |-> 1, name |-> << "f" >>, bitwidth |-> 8, match_type |-> "EXACT"],
                [id |-> 2, name |-> << "g" >>, bitwidth |-> 8, match_type |-> "LPM"] >> ] >>,
      actions |-> <<
          [ preamble |-> [id |-> 21, name |-> << "a" >>, alias |-> << "A" >>],
            params |-> << [id |-> 1, name |-> << "p" >>, bitwidth |-> 8] >> ] >>,
      action_profiles |-> <<
          [ preamble |-> [id |-> 31, name |-> << "s" >>, alias |-> << "S" >>] ] >> ]

\* getattr(self.p4info, entity_type)
Entities(p4info, entity_type) ==
    CASE entity_type = "tables" -> p4info.tables
      [] entity_type = "actions" -> p4info.actions
      [] entity_type = "action_profiles" -> p4info.action_profiles

\* seq[i] for the least i of hits, or AttributeError when there is none: the
\* first return of a lookup loop, or the raise after it.
FirstOf(seq, hits) ==
    IF hits = {} THEN Raise("AttributeError")
    ELSE Ok(seq[CHOOSE i \in hits : \A j \in hits : i <= j])

\* a lookup that matches the name only
GetIn_NameOnly(os, name) ==
    FirstOf(os, { i \in 1..Len(os) : name # <<>> /\ os[i].preamble.name = name })

\* P4InfoHelper.get(entity_type, name=name) over the entities os; an empty
\* name is falsy and is looked up as id None, which nothing has.
GetIn(os, name) ==
    FirstOf(os, { i \in 1..Len(os) :
                      /\ name # <<>>
                      /\ os[i].preamble.name = name \/ os[i].preamble.alias = name })

get_by_name(p4info, entity_type, name) == GetIn(Entities(p4info, entity_type), name)

\* P4InfoHelper.get_id, reached as get_tables_id / get_actions_id /
\* get_action_profiles_id through __getattr__
get_id(p4info, entity_type, name) ==
    Bind(get_by_name(p4info, entity_type, name), LAMBDA o : Ok(o.preamble.id))

\* P4InfoHelper.get(entity_type, id=id) over the entities os
GetByIdIn(os, id) == FirstOf(os, { i \in 1..Len(os) : os[i].preamble.id = id })

get_by_id(p4info, entity_type, id) == GetByIdIn(Entities(p4info, entity_type), id)

\* P4InfoHelper.get_name, reached as get_tables_name / get_actions_name /
\* get_action_profiles_name through __getattr__
get_name(p4info, entity_type, id) ==
    Bind(get_by_id(p4info, entity_type, id), LAMBDA o : Ok(o.preamble.name))

\* match_fields of the first of the tables, None when there is none
FieldsOf(hit) ==
    IF hit.exc # "none" THEN [none |-> TRUE, match_fields |-> <<>>]
    ELSE [none |-> FALSE, match_fields |-> hit.val.match_fields]

\* P4InfoHelper.get_match_fields(table_name): the match fields of the first
\* table of that preamble.name; the loop ends without a return when there is
\* none, and the method returns None
get_match_fields(p4info, table_name) ==
    FieldsOf(FirstOf(p4info.tables,
                     { i \in 1..Len(p4info.tables) :
                           p4info.tables[i].preamble.name = table_name }))

\* The match fields of the tables called table_name, in the order the nested
\* loops of get_match_field visit them.
RECURSIVE MatchFieldsOf(_, _)
MatchFieldsOf(tables, table_name) ==
    IF tables = <<>> THEN <<>>
    ELSE (IF Head(tables).preamble.name = table_name
          THEN Head(tables).match_fields ELSE <<>>)
         \o MatchFieldsOf(Tail(tables), table_name)

\* The params of the actions called action_name, likewise for get_action_param.
RECURSIVE ActionParamsOf(_, _)
ActionParamsOf(actions, action_name) ==
    IF actions = <<>> THEN <<>>
    ELSE (IF Head(actions).preamble.name = action_name
          THEN Head(actions).params ELSE <<>>)
         \o ActionParamsOf(Tail(actions), action_name)

\* The first item called name
NamedIn(items, name) ==
    FirstOf(items, { i \in 1..Len(items) : items[i].name = name })

\* P4InfoHelper.get_match_field(table_name, name=name): the tables are matched
\* on preamble.name only
get_match_field(p4info, table_name, name) ==
    NamedIn(MatchFieldsOf(p4info.tables, table_name), name)

\* params of the first of the actions os, None when there is none
ParamsOf(hit) ==
    IF hit.exc # "none" THEN [none |-> TRUE, params |-> <<>>]
    ELSE [none |-> FALSE, params |-> hit.val.params]

\* P4InfoHelper.get_action_params(action_name): the params of the first action
\* of that preamble.name; None when there is none
get_action_params(p4info, action_name) ==
    ParamsOf(FirstOf(p4info.actions,
                     { i \in 1..Len(p4info.actions) :
                           p4info.actions[i].preamble.name = action_name }))

\* The raise of get_action_param reads the loop variable a, which is unbound
\* when there is no action at all.
ParamNotFound(r, actions) ==
    IF r.exc # "none" /\ actions = <<>> THEN Raise("UnboundLocalError") ELSE r

\* P4InfoHelper.get_action_param(action_name, name=name)
get_action_param(p4info, action_name, name) ==
    ParamNotFound(NamedIn(ActionParamsOf(p4info.actions, action_name), name),
                  p4info.actions)

\* value[0] and value[1] of a value handed to get_match_field_pb
Index0(value) ==
    CASE value.t = "tuple" -> Ok(StrV(value.s))
      [] value.t = "str" -> IF Len(value.s) >= 1 THEN Ok(StrV(<< value.s[1] >>))
                            ELSE Raise("IndexError")
      [] OTHER -> Raise("TypeError")

Index1(value) ==
    CASE value.t = "tuple" -> Ok(IntV(value.pl))
      [] value.t = "str" -> IF Len(value.s) >= 2 THEN Ok(StrV(<< value.s[2] >>))
                            ELSE Raise("IndexError")
      [] OTHER -> Raise("TypeError")

NoFieldMatch ==
    [field_id |-> 0, field_match_type |-> "none", value |-> <<>>, prefix_len |-> 0,
     mask |-> <<>>, low |-> <<>>, high |-> <<>>]

\* encode(value[i], bitwidth) set to a bytes field, i = 0 or 1
EncodeItem(item, bitwidth) == Bind(item, LAMBDA v : BytesField(v, bitwidth))

\* lpm.prefix_len = value[1]: an int32 field takes a number only
PrefixLen(item) ==
    Bind(item, LAMBDA v : IF v.t = "int" THEN Ok(v.n) ELSE Raise("TypeError"))

\* get_match_field_pb with the EXACT branch taken for every match type
FieldMatchOf_AllExact(fm, match_type, e0, rest) ==
    Bind(e0, LAMBDA e : Ok([fm EXCEPT !.field_match_type = "exact", !.value = e]))

\* The branch of get_match_field_pb for match_type: e0 is the encoding of
\* value (EXACT) or of value[0], and rest that of value[1] or the prefix
\* length; value[1] is read only when value[0] was set.
FieldMatchOf(fm, match_type, e0, rest) ==
    CASE match_type = "EXACT" ->
            Bind(e0, LAMBDA e : Ok([fm EXCEPT !.field_match_type = "exact", !.value = e]))
      [] match_type = "LPM" ->
            Bind(e0, LAMBDA e : Bind(rest, LAMBDA pl :
                Ok([fm EXCEPT !.field_match_type = "lpm", !.value = e,
                              !.prefix_len = pl])))
      [] match_type = "TERNARY" ->
            Bind(e0, LAMBDA e : Bind(rest, LAMBDA m :
                Ok([fm EXCEPT !.field_match_type = "ternary", !.value = e, !.mask = m])))
      [] match_type = "RANGE" ->
            Bind(e0, LAMBDA e : Bind(rest, LAMBDA h :
                Ok([fm EXCEPT !.field_match_type = "range", !.low = e, !.high = h])))
      [] OTHER -> Raise("Exception")      \* Unsupported match type

\* get_match_field_pb for the schema's field p4info_match
MatchFieldPb(p4info_match, value) ==
    FieldMatchOf([NoFieldMatch EXCEPT !.field_id = p4info_match.id],
                 p4info_match.match_type,
                 EncodeItem(IF p4info_match.match_type = "EXACT"
                            THEN Ok(value) ELSE Index0(value),
                            p4info_match.bitwidth),
                 IF p4info_match.match_type = "LPM"
                 THEN PrefixLen(Index1(value))
                 ELSE EncodeItem(Index1(value), p4info_match.bitwidth))

\* P4InfoHelper.get_match_field_pb(table_name, match_field_name, value)
get_match_field_pb(p4info, table_name, match_field_name, value) ==
    Bind(get_match_field(p4info, table_name, match_field_name),
         LAMBDA p4info_match : MatchFieldPb(p4info_match, value))

\* P4InfoHelper.get_action_param_pb(action_name, param_name, value)
get_action_param_pb(p4info, action_name, param_name, value) ==
    Bind(get_action_param(p4info, action_name, param_name),
         LAMBDA p4info_param :
             Bind(BytesField(value, p4info_param.bitwidth),
                  LAMBDA e : Ok([param_id |-> p4info_param.id, value |-> e])))

\* The list comprehensions of the builders: every item in order, the first
\* exception ends it.
RECURSIVE MatchList(_, _, _, _)
MatchList(p4info, table_name, match_fields, i) ==
    IF i > Len(match_fields) THEN Ok(<<>>)
    ELSE Bind(get_match_field_pb(p4info, table_name,
                                 match_fields[i].k, match_fields[i].v),
              LAMBDA one : Bind(MatchList(p4info, table_name, match_fields, i + 1),
                                LAMBDA rest : Ok(<< one >> \o rest)))

RECURSIVE ParamList(_, _, _, _)
ParamList(p4info, action_name, action_params, i) ==
    IF i > Len(action_params) THEN Ok(<<>>)
    ELSE Bind(get_action_param_pb(p4info, action_name,
                                  action_params[i].k, action_params[i].v),
              LAMBDA one : Bind(ParamList(p4info, action_name, action_params, i + 1),
                                LAMBDA rest : Ok(<< one >> \o rest)))

\* TableAction: the oneof "type" of a table entry's action; setting a member
\* of the oneof clears the one that was set.
NoTableAction ==
    [type |-> "none", action_id |-> 0, params |-> <<>>,
     action_profile_member_id |-> 0, action_profile_group_id |-> 0]

\* The action after "if action_name:" of the builders
ActionOf(p4info, action_name, action_params) ==
    IF action_name = <<>> THEN Ok(NoTableAction)
    ELSE Bind(get_id(p4info, "actions", action_name),
              LAMBDA id : Bind(ParamList(p4info, action_name, action_params, 1),
                               LAMBDA ps : Ok([NoTableAction EXCEPT !.type = "action",
                                                                    !.action_id = id,
                                                                    !.params = ps])))

\* "if member_id:" and "if group_id:" of buildTableEntry
SetMember(act, member_id) ==
    IF member_id # 0
    THEN [NoTableAction EXCEPT !.type = "action_profile_member_id",
                               !.action_profile_member_id = member_id]
    ELSE act

SetGroup(act, group_id) ==
    IF group_id # 0
    THEN [NoTableAction EXCEPT !.type = "action_profile_group_id",
                               !.action_profile_group_id = group_id]
    ELSE act

\* table_entry.match after "if match_fields:" of buildTableEntry
MatchOf(p4info, table_name, match_fields, default_action) ==
    MatchList(p4info, table_name, match_fields, 1)

\* P4InfoHelper.buildTableEntry(table_name, match_fields, default_action,
\* action_name, action_params, priority=None, group_id, member_id); a dict is a
\* sequence of [k, v] in insertion order, None an empty one.
buildTableEntry(p4info, table_name, match_fields, default_action, action_name, action_params, group_id, member_id) ==
    Bind(get_id(p4info, "tables", table_name), LAMBDA tid :
    Bind(MatchOf(p4info, table_name, match_fields, default_action), LAMBDA match :
    Bind(ActionOf(p4info, action_name, action_params), LAMBDA act :
    Ok([table_id |-> tid,
        match |-> match,
        is_default_action |-> default_action,
        action |-> SetGroup(SetMember(act, member_id), group_id)]))))

\* P4InfoHelper.buildActionProfileMember(table_name, member_id, action_name,
\* action_params)
buildActionProfileMember(p4info, table_name, member_id, action_name, action_params) ==
    Bind(get_id(p4info, "action_profiles", table_name), LAMBDA pid :
    Bind(ActionOf(p4info, action_name, action_params), LAMBDA act :
    Ok([action_profile_id |-> pid,
        member_id |-> member_id,
        has_action |-> act.type = "action",
        action_id |-> act.action_id,
        params |-> act.params])))

\* "for i in members: if str.isdigit(i)": members is the text between the
\* keywords, and the loop goes over its characters
RECURSIVE GroupMembers(_, _)
GroupMembers(members, i) ==
    IF i > Len(members) THEN <<>>
    ELSE (IF members[i] \in Digits THEN << DigitVal(members[i]) >> ELSE <<>>)
         \o GroupMembers(members, i + 1)

\* P4InfoHelper.buildActionProfileGroup(table_name, group_id, max_size, members)
buildActionProfileGroup(p4info, table_name, group_id, max_size, members) ==
    Bind(get_id(p4info, "action_profiles", table_name), LAMBDA pid :
    Ok([action_profile_id |-> pid,
        group_id |-> group_id,
        members |-> GroupMembers(members, 1),
        max_size |-> max_size]))

----------------------------------------------------------------------------
\* Flow texts and their parsers

\* match_keys[k] = v on a dict kept as the sequence of its items
DictSet(d, k, v) ==
    IF \E i \in 1..Len(d) : d[i].k = k
    THEN [i \in 1..Len(d) |-> IF d[i].k = k THEN [k |-> k, v |-> v] ELSE d[i]]
    ELSE Append(d, [k |-> k, v |-> v])

\* int(x) of a value that is a text or already a number
IntOf(x) == IF x.t = "int" THEN Ok(x.n) ELSE PyInt(x.s)

\* (lpm_mk[0], int(lpm_mk[1])) of parse_match_key
LpmKey(k, lpm_mk) ==
    Bind(PyInt(lpm_mk[2]), LAMBDA n : Ok([k |-> k, v |-> TupV(lpm_mk[1], n)]))

\* One pass of the loop of parse_match_key, m = mk_field.split("=")
MatchKey(m) ==
    IF Len(m) < 2 THEN Raise("IndexError")
    ELSE IF Find(m[2], << "/" >>) # 0 THEN LpmKey(m[1], Split(m[2], << "/" >>))
    ELSE Ok([k |-> m[1], v |-> StrV(m[2])])

\* The loop of parse_match_key over mk_fields, from item i on.
RECURSIVE ParseMatchFields(_, _, _)
ParseMatchFields(mk_fields, i, match_keys) ==
    IF i > Len(mk_fields) THEN Ok(match_keys)
    ELSE Bind(MatchKey(Split(mk_fields[i], << "=" >>)),
              LAMBDA kv : ParseMatchFields(mk_fields, i + 1,
                                           DictSet(match_keys, kv.k, kv.v)))

\* parse_match_key(key)
parse_match_key(key) == ParseMatchFields(Split(key, << "," >>), 1, <<>>)

\* The number a string of hex digits denotes.
RECURSIVE HexValue(_)
HexValue(s) ==
    IF s = <<>> THEN 0 ELSE 16 * HexValue(SubSeq(s, 1, Len(s) - 1)) + HexVal(s[Len(s)])

\* int(a, 0) of a text that holds "0x": a hex literal, or ValueError
PyIntBase0(a) ==
    IF /\ Len(a) > 2
       /\ a[1] = "0" /\ a[2] = "x"
       /\ \A i \in 3..Len(a) : IsHexDigit(a[i])
    THEN Ok(HexValue(SubSeq(a, 3, Len(a))))
    ELSE Raise("ValueError")

\* One item of the act_data comprehension of parse_action.
ActDatum(a) ==
    IF matchesIPv4(a) THEN encodeIPv4_base10(a)
    ELSE IF matchesMac(a) THEN Ok(decodeNum(encodeMac(a)))
    ELSE IF Find(a, << "0", "x" >>) # 0 THEN PyIntBase0(a)
    ELSE PyInt(a)

RECURSIVE ActData(_, _)
ActData(act_data, i) ==
    IF i > Len(act_data) THEN Ok(<<>>)
    ELSE Bind(ActDatum(act_data[i]),
              LAMBDA one : Bind(ActData(act_data, i + 1),
                                LAMBDA rest : Ok(<< IntV(one) >> \o rest)))

\* parse_action from act_fields = action.split("("); act_data is [""] when the
\* text has no parenthesis
ActionFields(act_fields) ==
    IF Len(act_fields) > 1
    THEN Bind(ActData(Split(Split(act_fields[2], << ")" >>)[1], << "," >>), 1),
              LAMBDA data : Ok([action_name |-> act_fields[1], act_data |-> data]))
    ELSE Ok([action_name |-> act_fields[1], act_data |-> << StrV(<<>>) >>])

\* parse_action(action): (action_name, act_data)
parse_action(action) == ActionFields(Split(action, << "(" >>))

\* What the parsers hand to the commands; action_name None and act_data None
\* are has_action FALSE and has_data FALSE.
NoParsed ==
    [match_keys |-> <<>>, has_action |-> FALSE, action_name |-> <<>>,
     has_data |-> FALSE, act_data |-> <<>>, group_id |-> IntV(0), member_id |-> IntV(0),
     members |-> <<>>, max_size |-> <<>>]

WithAction(p, pa) ==
    [p EXCEPT !.has_action = TRUE, !.action_name = pa.action_name,
              !.has_data = TRUE, !.act_data = pa.act_data]

\* parse_flow from tmp = flow.split(",action=")
FlowParts(tmp) ==
    IF Len(tmp) < 2 THEN Raise("IndexError")
    ELSE Bind(parse_match_key(tmp[1]), LAMBDA match_keys :
         Bind(parse_action(tmp[2]), LAMBDA pa :
         Ok(WithAction([NoParsed EXCEPT !.match_keys = match_keys], pa))))

\* parse_flow(flow)
parse_flow(fl) == FlowParts(Split(fl, << ",", "a", "c", "t", "i", "o", "n", "=" >>))

\* The if / elif of parse_flow_as on key, then parse_match_key(mk)
FlowAsKey(mk, key, act) ==
    Bind(IF key = << "a", "c", "t", "i", "o", "n" >> THEN parse_action(act)
         ELSE Ok([action_name |-> <<>>, act_data |-> <<>>]), LAMBDA pa :
    Bind(parse_match_key(mk), LAMBDA match_keys :
    Ok([NoParsed EXCEPT
          !.match_keys = match_keys,
          !.has_action = (key = << "a", "c", "t", "i", "o", "n" >>),
          !.action_name = pa.action_name,
          !.has_data = (key = << "a", "c", "t", "i", "o", "n" >>),
          !.act_data = pa.act_data,
          !.group_id = IF key = << "g", "r", "o", "u", "p", "_", "i", "d" >> THEN StrV(act) ELSE IntV(0),
          !.member_id = IF key = << "m", "e", "m", "b", "e", "r", "_", "i", "d" >> THEN StrV(act) ELSE IntV(0)])))

\* extract_act = extract_key.split("=") of parse_flow_as
FlowAsAct(mk, extract_act) ==
    IF Len(extract_act) < 2 THEN Raise("IndexError")
    ELSE FlowAsKey(mk, extract_act[1], extract_act[2])

\* parse_flow_as from extract_mk = flow.split(","): only its first two items
\* are read
FlowAsParts(extract_mk) ==
    IF Len(extract_mk) < 2 THEN Raise("IndexError")
    ELSE FlowAsAct(extract_mk[1], Split(extract_mk[2], << "=" >>))

\* parse_flow_as(flow)
parse_flow_as(fl) == FlowAsParts(Split(fl, << "," >>))

\* act = action_param.split("action="); parse_action(act[1])
ProfileMemAction(act, mem_id) ==
    IF Len(act) < 2 THEN Raise("IndexError")
    ELSE Bind(parse_action(act[2]), LAMBDA pa :
         Ok(WithAction([NoParsed EXCEPT !.member_id = StrV(mem_id)], pa)))

\* parse_profile_mem from extract_mem = flow.split(",member_id=")
ProfileMemParts(extract_mem) ==
    IF Len(extract_mem) < 2 THEN Raise("IndexError")
    ELSE ProfileMemAction(Split(extract_mem[1], << "a", "c", "t", "i", "o", "n", "=" >>), extract_mem[2])

\* parse_profile_mem(flow)
parse_profile_mem(fl) == ProfileMemParts(Split(fl, << ",", "m", "e", "m", "b", "e", "r", "_", "i", "d", "=" >>))

\* mem = extract_group[1].split(",max_size=") and group_id[1]
ProfileGroupOf(group_id, mem) ==
    IF Len(mem) < 2 \/ Len(group_id) < 2 THEN Raise("IndexError")
    ELSE Ok([NoParsed EXCEPT !.group_id = StrV(group_id[2]),
                             !.members = mem[1],
                             !.max_size = mem[2]])

\* parse_profile_group from extract_group = flow.split(",reference_members=")
ProfileGroupParts(extract_group) ==
    IF Len(extract_group) < 2 THEN Raise("IndexError")
    ELSE ProfileGroupOf(Split(extract_group[1], << "g", "r", "o", "u", "p", "_", "i", "d", "=" >>),
                        Split(extract_group[2], << ",", "m", "a", "x", "_", "s", "i", "z", "e", "=" >>))

\* parse_profile_group(flow)
parse_profile_group(fl) == ProfileGroupParts(Split(fl, << ",", "r", "e", "f", "e", "r", "e", "n", "c", "e", "_", "m", "e", "m", "b", "e", "r", "s", "=" >>))

----------------------------------------------------------------------------
\* Formatters of dump-entries and of the member and group dumps

\* codecs.encode(s, "hex_codec") of one byte: two lower-case hex digits
HexByte(b) == << HexDigitSeq[(b \div 16) + 1], HexDigitSeq[(b % 16) + 1] >>

RECURSIVE HexBytes(_)
HexBytes(encoded_bytes) ==
    IF encoded_bytes = <<>> THEN <<>>
    ELSE HexByte(Head(encoded_bytes)) \o HexBytes(Tail(encoded_bytes))

\* decodeToHex(encoded_bytes)
decodeToHex(encoded_bytes) == << "0", "x" >> \o HexBytes(encoded_bytes)

\* The characters of the codes 32..126 (code 96, the grave accent, by name)
Printable ==
    << " ", "!", "\"", "#", "$", "%", "&", "'", "(", ")", "*", "+",
       ",", "-", ".", "/", "0", "1", "2", "3", "4", "5", "6", "7",
       "8", "9", ":", ";", "<", "=", ">", "?", "@", "A", "B", "C",
       "D", "E", "F", "G", "H", "I", "J", "K", "L", "M", "N", "O",
       "P", "Q", "R", "S", "T", "U", "V", "W", "X", "Y", "Z", "[",
       "\\", "]", "^", "_", "grave", "a", "b", "c", "d", "e", "f", "g",
       "h", "i", "j", "k", "l", "m", "n", "o", "p", "q", "r", "s",
       "t", "u", "v", "w", "x", "y", "z", "{", "|", "}", "~" >>

\* One byte in the repr of a bytes object written between quote characters
ReprByte(b, quote) ==
    CASE b = 9 -> << "\\", "t" >>
      [] b = 10 -> << "\\", "n" >>
      [] b = 13 -> << "\\", "r" >>
      [] b < 32 \/ b >= 127 -> << "\\", "x" >> \o HexByte(b)
      [] Printable[b - 31] = quote \/ b = 92 -> << "\\", Printable[b - 31] >>
      [] OTHER -> << Printable[b - 31] >>

RECURSIVE ReprBytes(_, _)
ReprBytes(bs, quote) ==
    IF bs = <<>> THEN <<>> ELSE ReprByte(Head(bs), quote) \o ReprBytes(Tail(bs), quote)

\* "{}".format(b) of a bytes object b: its repr, in double quotes when it holds
\* a single quote and no double quote
QuoteOf(bs) ==
    IF (\E i \in 1..Len(bs) : bs[i] = 39) /\ (\A i \in 1..Len(bs) : bs[i] # 34)
    THEN "\"" ELSE "'"

BytesRepr(bs) == << "b", QuoteOf(bs) >> \o ReprBytes(bs, QuoteOf(bs)) \o << QuoteOf(bs) >>

\* P4InfoHelper.get_match_field_name(table_name, match_field_id): the tables
\* are matched on preamble.name, the fields on id
get_match_field_name(p4info, table_name, match_field_id) ==
    Bind(FirstOf(MatchFieldsOf(p4info.tables, table_name),
                 { i \in 1..Len(MatchFieldsOf(p4info.tables, table_name)) :
                       MatchFieldsOf(p4info.tables, table_name)[i].id = match_field_id }),
         LAMBDA mf : Ok(mf.name))

\* mf_val of _format_entry: get_match_field_value(mf) is the bytes of an exact
\* match and a pair otherwise; of a pair, the first item goes through
\* decodeToHex and the second is formatted as it is.
MatchValueText(mf) ==
    CASE mf.field_match_type = "exact" -> Ok(decodeToHex(mf.value))
      [] mf.field_match_type = "lpm" ->
            Ok(decodeToHex(mf.value) \o << "/" >> \o PyStr(mf.prefix_len))
      [] mf.field_match_type = "ternary" ->
            Ok(decodeToHex(mf.value) \o << "/" >> \o BytesRepr(mf.mask))
      [] mf.field_match_type = "range" ->
            Ok(decodeToHex(mf.low) \o << "/" >> \o BytesRepr(mf.high))
      [] OTHER -> Raise("Exception")      \* Unsupported match type

\* "for mf in table_entry.match" of _format_entry, from the i-th field on
RECURSIVE MatchesText(_, _, _, _)
MatchesText(p4info, table_name, match, i) ==
    IF i > Len(match) THEN Ok(<<>>)
    ELSE Bind(get_match_field_name(p4info, table_name, match[i].field_id), LAMBDA n :
         Bind(MatchValueText(match[i]), LAMBDA v :
         Bind(MatchesText(p4info, table_name, match, i + 1), LAMBDA more :
         Ok((IF i = 1 THEN << " " >> ELSE << "," >>) \o n \o << "=" >> \o v \o more))))

\* decodeToHex(param.value) or int.from_bytes(param.value, "big")
ParamValueText(encoded, style) ==
    IF style = "hex" THEN decodeToHex(encoded) ELSE PyStr(decodeNum(encoded))

\* "for idx, param in enumerate(params)" of _format_entry and _format_member:
\* action_params[idx] of the schema names the idx-th parameter of the message;
\* action_params is None when get_action_params found no action.
RECURSIVE ParamsText(_, _, _, _)
ParamsText(action_params, params, i, style) ==
    IF i > Len(params) THEN Ok(<<>>)
    ELSE IF action_params.none THEN Raise("TypeError")
    ELSE IF i > Len(action_params.params) THEN Raise("IndexError")
    ELSE Bind(ParamsText(action_params, params, i + 1, style), LAMBDA more :
              Ok(action_params.params[i].name \o << "=" >>
                 \o ParamValueText(params[i].value, style) \o more))

\* " actions=name(params)" of both formatters for the action of id action_id
ActionsText(p4info, action_id, params, style) ==
    Bind(get_name(p4info, "actions", action_id), LAMBDA action_name :
    Bind(ParamsText(get_action_params(p4info, action_name), params, 1, style), LAMBDA ps :
    Ok(<< " ", "a", "c", "t", "i", "o", "n", "s", "=" >> \o action_name \o << "(" >> \o ps \o << ")" >>)))

\* _format_entry(p4info_helper, table_entry); table_entry.action.action is
\* the empty Action, of action_id 0, when the entry refers to a member or a
\* group; priority is an int32 field, 0 and never None.
FormatEntry(p4info, table_entry) ==
    Bind(get_name(p4info, "tables", table_entry.table_id), LAMBDA tn :
    Bind(MatchesText(p4info, tn, table_entry.match, 1), LAMBDA ms :
    Bind(ActionsText(p4info, table_entry.action.action_id, table_entry.action.params, "hex"),
         LAMBDA acts :
    Ok(<< " ", " ", "t", "a", "b", "l", "e", "=" >> \o tn \o << " ", "p", "r", "i", "o", "r", "i", "t", "y", "=", "0" >> \o ms \o acts))))

\* _format_member(p4info_helper, apm)
FormatMember(p4info, apm) ==
    Bind(get_name(p4info, "action_profiles", apm.action_profile_id), LAMBDA apm_name :
    Bind(ActionsText(p4info, apm.action_id, apm.params, "dec"), LAMBDA acts :
    Ok(<< " ", " ", "a", "c", "t", "i", "o", "n", "_", "p", "r", "o", "f", "i", "l", "e", "s", "=" >> \o apm_name \o acts)))

----------------------------------------------------------------------------
\* Commands

EntryCommands == {"add-entry", "modify-entry"}
ProfileCommands == {"add-action-profile-group", "delete-action-profile-group",
                    "add-action-profile-member", "delete-action-profile-member"}
Commands == EntryCommands \cup ProfileCommands \cup {"del-entry", "set-default-entry"}

\* A profile command that carries the id but does not test it.
IsZeroId_Never(id) == FALSE

\* "if int(group_id) == 0" / "if int(mem_id) == 0" of the profile commands
IsZeroId(id) == id = 0

\* The warning printed for an id of 0.
ZeroIdWarning(cmd) ==
    IF cmd \in {"add-action-profile-group", "delete-action-profile-group"}
    THEN "Group ID 0 is un-supported." ELSE "Member ID 0 is un-supported."

\* The part of a command before client.get_p4info(): the parsed flow p, with
\* zero_id TRUE where the command prints its warning and returns.
Parsed(p, zero_id) == Ok([p |-> p, zero_id |-> zero_id])

\* p4ctl_add_entry and p4ctl_mod_entry up to get_p4info
entry_parse(fl) ==
    Bind(IF Find(fl, << "g", "r", "o", "u", "p", "_", "i", "d" >>) # 0 \/ Find(fl, << "m", "e", "m", "b", "e", "r", "_", "i", "d" >>) # 0
         THEN parse_flow_as(fl) ELSE parse_flow(fl),
         LAMBDA p : Parsed(p, FALSE))

\* p4ctl_del_entry up to get_p4info
del_entry_parse(fl) ==
    Bind(parse_match_key(fl),
         LAMBDA key : Parsed([NoParsed EXCEPT !.match_keys = key], FALSE))

\* p4ctl_add_group up to get_p4info
add_group_parse(fl) ==
    Bind(parse_profile_group(fl), LAMBDA p :
    Bind(IntOf(p.group_id), LAMBDA id : Parsed(p, IsZeroId(id))))

\* group_id = flow.split("group_id=")[1] / member_id = flow.split("member_id=")[1]
IdPart(parts) == IF Len(parts) < 2 THEN Raise("IndexError") ELSE Ok(parts[2])

\* p4ctl_del_group up to get_p4info
del_group_parse(fl) ==
    Bind(IdPart(Split(fl, << "g", "r", "o", "u", "p", "_", "i", "d", "=" >>)), LAMBDA group_id :
    Bind(PyInt(group_id), LAMBDA id :
    Parsed([NoParsed EXCEPT !.group_id = StrV(group_id)], IsZeroId(id))))

\* p4ctl_add_member up to get_p4info
add_member_parse(fl) ==
    Bind(parse_profile_mem(fl), LAMBDA p :
    Bind(IntOf(p.member_id), LAMBDA id : Parsed(p, IsZeroId(id))))

\* p4ctl_del_member up to get_p4info
del_member_parse(fl) ==
    Bind(IdPart(Split(fl, << "m", "e", "m", "b", "e", "r", "_", "i", "d", "=" >>)), LAMBDA member_id :
    Bind(PyInt(member_id), LAMBDA id :
    Parsed([NoParsed EXCEPT !.member_id = StrV(member_id)], IsZeroId(id))))

CommandParse(cmd, fl) ==
    CASE cmd \in EntryCommands -> entry_parse(fl)
      [] cmd = "del-entry" -> del_entry_parse(fl)
      [] cmd = "add-action-profile-group" -> add_group_parse(fl)
      [] cmd = "delete-action-profile-group" -> del_group_parse(fl)
      [] cmd = "add-action-profile-member" -> add_member_parse(fl)
      [] cmd = "delete-action-profile-member" -> del_member_parse(fl)

\* {a.name: int(action_data[idx]) for idx, a in enumerate(params)}
RECURSIVE ParamDict(_, _, _, _)
ParamDict(params, action_data, ix, acc) ==
    IF ix > Len(params) THEN Ok(acc)
    ELSE IF ix > Len(action_data) THEN Raise("IndexError")
    ELSE Bind(IntOf(action_data[ix]),
              LAMBDA n : ParamDict(params, action_data, ix + 1,
                                   DictSet(acc, params[ix].name, IntV(n))))

\* The comprehension over ps = helper.get_action_params(action), which is
\* None for an unknown name
ParamsDict(ps, action_data) ==
    IF ps.none THEN Raise("TypeError") ELSE ParamDict(ps.params, action_data, 1, <<>>)

\* The action_params argument of the builders
ActionParams(p4info, action, action_data) ==
    ParamsDict(get_action_params(p4info, action), action_data)

NoEntity == [kind |-> "none"]
TableEntryOf(te) == [kind |-> "table_entry", te |-> te]
MemberOf(apm) == [kind |-> "action_profile_member", apm |-> apm]
GroupOf(apg) == [kind |-> "action_profile_group", apg |-> apg]

\* p4ctl_add_entry and p4ctl_mod_entry: the call of helper.buildTableEntry,
\* its arguments evaluated in order
entry_build(p4info, tbl, p) ==
    Bind(IF ~p.has_data THEN Ok(<<>>)
         ELSE ActionParams(p4info, p.action_name, p.act_data), LAMBDA action_params :
    Bind(IntOf(p.group_id), LAMBDA group_id :
    Bind(IntOf(p.member_id), LAMBDA member_id :
    Bind(buildTableEntry(p4info, tbl, p.match_keys, FALSE, p.action_name,
                         action_params, group_id, member_id),
         LAMBDA te : Ok(TableEntryOf(te))))))

\* p4ctl_del_entry: buildTableEntry(table_name, match_fields)
del_entry_build(p4info, tbl, p) ==
    Bind(buildTableEntry(p4info, tbl, p.match_keys, FALSE, <<>>, <<>>, 0, 0),
         LAMBDA te : Ok(TableEntryOf(te)))

\* p4ctl_set_default_entry after get_p4info: parse_action, then
\* buildTableEntry(table_name, default_action=True, action_name, action_params)
set_default_entry_build(p4info, tbl, action) ==
    Bind(parse_action(action), LAMBDA pa :
    Bind(ActionParams(p4info, pa.action_name, pa.act_data), LAMBDA action_params :
    Bind(buildTableEntry(p4info, tbl, <<>>, TRUE, pa.action_name, action_params, 0, 0),
         LAMBDA te : Ok(TableEntryOf(te)))))

\* p4ctl_add_group: buildActionProfileGroup(table_name, int(group_id),
\* int(max_size), members)
add_group_build(p4info, tbl, p) ==
    Bind(IntOf(p.group_id), LAMBDA group_id :
    Bind(PyInt(p.max_size), LAMBDA max_size :
    Bind(buildActionProfileGroup(p4info, tbl, group_id, max_size, p.members),
         LAMBDA apg : Ok(GroupOf(apg)))))

\* p4ctl_del_group: buildActionProfileGroup(table_name, int(group_id))
del_group_build(p4info, tbl, p) ==
    Bind(IntOf(p.group_id), LAMBDA group_id :
    Bind(buildActionProfileGroup(p4info, tbl, group_id, 0, <<>>),
         LAMBDA apg : Ok(GroupOf(apg))))

\* p4ctl_add_member: buildActionProfileMember(table_name, int(mem_id), action,
\* action_params)
add_member_build(p4info, tbl, p) ==
    Bind(IntOf(p.member_id), LAMBDA member_id :
    Bind(ActionParams(p4info, p.action_name, p.act_data), LAMBDA action_params :
    Bind(buildActionProfileMember(p4info, tbl, member_id, p.action_name, action_params),
         LAMBDA apm : Ok(MemberOf(apm)))))

\* p4ctl_del_member: buildActionProfileMember(table_name, int(member_id))
del_member_build(p4info, tbl, p) ==
    Bind(IntOf(p.member_id), LAMBDA member_id :
    Bind(buildActionProfileMember(p4info, tbl, member_id, <<>>, <<>>),
         LAMBDA apm : Ok(MemberOf(apm))))

CommandBuild(cmd, p4info, tbl, fl, p) ==
    CASE cmd \in EntryCommands -> entry_build(p4info, tbl, p)
      [] cmd = "del-entry" -> del_entry_build(p4info, tbl, p)
      [] cmd = "set-default-entry" -> set_default_entry_build(p4info, tbl, fl)
      [] cmd = "add-action-profile-group" -> add_group_build(p4info, tbl, p)
      [] cmd = "delete-action-profile-group" -> del_group_build(p4info, tbl, p)
      [] cmd = "add-action-profile-member" -> add_member_build(p4info, tbl, p)
      [] cmd = "delete-action-profile-member" -> del_member_build(p4info, tbl, p)

\* update.type of the command
UpdateType(cmd) ==
    CASE cmd \in {"add-entry", "add-action-profile-group", "add-action-profile-member"}
             -> "INSERT"
      [] cmd \in {"modify-entry", "set-default-entry"} -> "MODIFY"
      [] OTHER -> "DELETE"

\* The command lines of the model. A flow is given by its pieces and written
\* out as the text the command receives.
ExactPiece(name, num) == [name |-> name, num |-> num, plen |-> <<>>]
LpmPiece(name, num, plen) == [name |-> name, num |-> num, plen |-> << plen >>]

Pieces == { ExactPiece(<< "f" >>, 5), LpmPiece(<< "g" >>, 7, 8),
            ExactPiece(<< "h" >>, 1), ExactPiece(<< "f" >>, 300) }

ActTexts == { << "a", "(", "7", ")" >>, << "A", "(", "7", ")" >>, << "a" >>,
              << "a", "(", "x", ")" >> }

MemberTexts == { << "(", "1", ",", "2", ")" >>, << "(", "1", "2", ")" >> }

\* Addresses and parameter values of the flows f=A,action=a(v).
Addrs == { << "1", "0", ".", "0", ".", "0", ".", "1" >>,
           << "0", ".", "0", ".", "0", ".", "0" >>,
           << "2", "5", "5", ".", "2", "5", "5", ".", "2", "5", "5", ".", "2", "5", "5" >>,
           << "1", "9", "2", ".", "1", "6", "8", ".", "1", ".", "2", "0" >> }
ParamVals == {0, 7, 255}

NoGiven ==
    [fields |-> <<>>, tail |-> "none", id |-> 0, act |-> <<>>, members |-> <<>>,
     addr |-> <<>>, val |-> 0]

FieldLists == UNION { [1..n -> Pieces] : n \in 1..MaxFields }

Givens(cmd) ==
    CASE cmd \in EntryCommands ->
             { [NoGiven EXCEPT !.fields = fs] : fs \in FieldLists }
             \cup { [NoGiven EXCEPT !.fields = fs, !.tail = "action", !.act = a] :
                        fs \in FieldLists, a \in ActTexts }
             \cup { [NoGiven EXCEPT !.fields = fs, !.tail = t, !.id = n] :
                        fs \in FieldLists, t \in {"group_id", "member_id"}, n \in 0..MaxId }
      [] cmd = "del-entry" ->
             { [NoGiven EXCEPT !.fields = fs] : fs \in FieldLists }
      [] cmd = "set-default-entry" ->
             { [NoGiven EXCEPT !.tail = "action", !.act = a] : a \in ActTexts }
      [] cmd = "add-action-profile-group" ->
             { [NoGiven EXCEPT !.tail = "group_id", !.id = n, !.members = m] :
                   n \in 0..MaxId, m \in MemberTexts }
      [] cmd = "delete-action-profile-group" ->
             { [NoGiven EXCEPT !.tail = "group_id", !.id = n] : n \in 0..MaxId }
      [] cmd = "add-action-profile-member" ->
             { [NoGiven EXCEPT !.tail = "member_id", !.id = n, !.act = a] :
                   n \in 0..MaxId, a \in ActTexts }
      [] cmd = "delete-action-profile-member" ->
             { [NoGiven EXCEPT !.tail = "member_id", !.id = n] : n \in 0..MaxId }

\* The flows f=A,action=a(v)
DirectGivens ==
    { [NoGiven EXCEPT !.tail = "direct", !.addr = A, !.val = v] :
          A \in Addrs, v \in ParamVals }

PieceText(p) ==
    p.name \o << "=" >> \o PyStr(p.num)
        \o (IF p.plen = <<>> THEN <<>> ELSE << "/" >> \o PyStr(p.plen[1]))

FieldsText(fs) == Join([i \in 1..Len(fs) |-> PieceText(fs[i])], << "," >>)

FlowText(cmd, g) ==
    CASE cmd \in EntryCommands /\ g.tail = "direct" ->
             << "f", "=" >> \o g.addr
             \o << ",", "a", "c", "t", "i", "o", "n", "=", "a", "(" >> \o PyStr(g.val) \o << ")" >>
      [] cmd \in EntryCommands ->
             FieldsText(g.fields)
             \o (CASE g.tail = "action" -> << ",", "a", "c", "t", "i", "o", "n", "=" >> \o g.act
                   [] g.tail = "group_id" -> << ",", "g", "r", "o", "u", "p", "_", "i", "d", "=" >> \o PyStr(g.id)
                   [] g.tail = "member_id" -> << ",", "m", "e", "m", "b", "e", "r", "_", "i", "d", "=" >> \o PyStr(g.id)
                   [] OTHER -> <<>>)
      [] cmd = "del-entry" -> FieldsText(g.fields)
      [] cmd = "set-default-entry" -> g.act
      [] cmd = "add-action-profile-group" ->
             << "g", "r", "o", "u", "p", "_", "i", "d", "=" >> \o PyStr(g.id) \o << ",", "r", "e", "f", "e", "r", "e", "n", "c", "e", "_", "m", "e", "m", "b", "e", "r", "s", "=" >> \o g.members
             \o << ",", "m", "a", "x", "_", "s", "i", "z", "e", "=", "2" >>
      [] cmd = "delete-action-profile-group" -> << "g", "r", "o", "u", "p", "_", "i", "d", "=" >> \o PyStr(g.id)
      [] cmd = "add-action-profile-member" ->
             << "a", "c", "t", "i", "o", "n", "=" >> \o g.act \o << ",", "m", "e", "m", "b", "e", "r", "_", "i", "d", "=" >> \o PyStr(g.id)
      [] cmd = "delete-action-profile-member" -> << "m", "e", "m", "b", "e", "r", "_", "i", "d", "=" >> \o PyStr(g.id)

\* The names a command line gives for its TABLE argument: the table's or the
\* profile's name or alias.
TableArgs(cmd) ==
    IF cmd \in ProfileCommands THEN { << "s" >>, << "S" >> } ELSE { << "t" >>, << "T" >> }

\* The pipeline a device answers get_p4info with: the configured one, or an
\* empty P4Info when none was set.
EmptyP4Info == [tables |-> <<>>, actions |-> <<>>, action_profiles |-> <<>>]

\* A pipeline whose table t has the one EXACT field f of 32 bits and whose
\* action a has the one parameter p of 8 bits.
P4InfoIPv4 ==
    [ tables |-> <<
          [ preamble |-> [id |-> 12, name |-> << "t" >>, alias |-> << "T" >>],
            match_fields |-> <<
                [id |-> 1, name |-> << "f" >>, bitwidth |-> 32, match_type |-> "EXACT"] >> ] >>,
      actions |-> <<
          [ preamble |-> [id |-> 22, name |-> << "a" >>, alias |-> << "A" >>],
            params |-> << [id |-> 1, name |-> << "p" >>, bitwidth |-> 8] >> ] >>,
      action_profiles |-> <<>> ]

Pipelines == {P4Info, EmptyP4Info}

\* The arguments of a direct call of buildTableEntry.
NoCall ==
    [match_fields |-> <<>>, default_action |-> FALSE, action_name |-> <<>>,
     action_params |-> <<>>, group_id |-> 0, member_id |-> 0]

Calls ==
    { [match_fields |-> mf, default_action |-> da, action_name |-> an,
       action_params |-> ap, group_id |-> gid, member_id |-> mid] :
          mf \in { <<>>, << [k |-> << "f" >>, v |-> StrV(<< "5" >>)] >> },
          da \in BOOLEAN,
          an \in { <<>>, << "a" >> },
          ap \in { <<>>, << [k |-> << "p" >>, v |-> IntV(7)] >> },
          gid \in 0..1, mid \in 0..1 }

CmdIdle ==
    /\ cpc = "idle"
    /\ command = "none"
    /\ tbl_name = <<>>
    /\ given = NoGiven
    /\ flow = <<>>
    /\ client = "none"
    /\ parsed = NoParsed
    /\ npipe = 0
    /\ pipeline = EmptyP4Info
    /\ call = NoCall
    /\ built = "no"
    /\ entity = NoEntity
    /\ writes = <<>>
    /\ printed = <<>>
    /\ result = "none"

\* main dispatches a command: with_client's handle starts.
Invoke(cmd, tbl, g) ==
    /\ cpc = "idle"
    /\ cpc' = "client"
    /\ command' = cmd
    /\ tbl_name' = tbl
    /\ given' = g
    /\ flow' = FlowText(cmd, g)
    /\ UNCHANGED << client, parsed, npipe, pipeline, call, built, entity, writes,
                    printed, result >>
    /\ UNCHANGED notCmd

\* client = P4RuntimeClient(device_id=1) returns: the arbitration was answered.
ClientUp ==
    /\ cpc = "client"
    /\ client' = "up"
    /\ cpc' = IF command = "set-default-entry" THEN "p4info" ELSE "parse"
    /\ UNCHANGED << command, tbl_name, given, flow, parsed, npipe, pipeline, call,
                    built, entity, writes, printed, result >>
    /\ UNCHANGED notCmd

\* The constructor's handshake calls sys.exit(1): client is still None, so
\* the finally clause of with_client tears nothing down.
ClientExit ==
    /\ cpc = "client"
    /\ cpc' = "exit"
    /\ result' = "SystemExit"
    /\ UNCHANGED << command, tbl_name, given, flow, client, parsed, npipe, pipeline,
                    call, built, entity, writes, printed >>
    /\ UNCHANGED notCmd

\* The end of the first part when an exception leaves handle without the
\* finally clause
ParseEnd_NoFinally(r) ==
    IF r.exc # "none"
    THEN /\ result' = r.exc
         /\ cpc' = "exit"
         /\ UNCHANGED << parsed, printed >>
    ELSE IF r.val.zero_id
    THEN /\ printed' = Append(printed, ZeroIdWarning(command))
         /\ result' = "returned"
         /\ cpc' = "teardown"
         /\ parsed' = r.val.p
    ELSE /\ parsed' = r.val.p
         /\ cpc' = "p4info"
         /\ UNCHANGED << printed, result >>

\* The command's end before get_p4info, r being what its first part made of
\* the flow: an exception, the return after the warning, or neither.
ParseEnd(r) ==
    IF r.exc # "none"
    THEN /\ result' = r.exc
         /\ cpc' = "teardown"
         /\ UNCHANGED << parsed, printed >>
    ELSE IF r.val.zero_id
    THEN /\ printed' = Append(printed, ZeroIdWarning(command))
         /\ result' = "returned"
         /\ cpc' = "teardown"
         /\ parsed' = r.val.p
    ELSE /\ parsed' = r.val.p
         /\ cpc' = "p4info"
         /\ UNCHANGED << printed, result >>

\* The command up to get_p4info: the flow is parsed; an id of 0 prints the
\* warning and returns.
ParseFlow ==
    /\ cpc = "parse"
    /\ ParseEnd(CommandParse(command, flow))
    /\ UNCHANGED << command, tbl_name, given, flow, client, npipe, pipeline, call,
                    built, entity, writes >>
    /\ UNCHANGED notCmd

\* client.get_p4info(): the GetForwardingPipelineConfig RPC answers with the
\* device's P4Info, or fails and parse_p4runtime_error raises.
GetP4Info(ok, p) ==
    /\ cpc = "p4info"
    /\ npipe' = npipe + 1
    /\ IF ok
       THEN /\ pipeline' = p
            /\ cpc' = "build"
            /\ UNCHANGED result
       ELSE /\ result' = "P4RuntimeException"
            /\ cpc' = "teardown"
            /\ UNCHANGED pipeline
    /\ UNCHANGED << command, tbl_name, given, flow, client, parsed, call, built,
                    entity, writes, printed >>
    /\ UNCHANGED notCmd

\* The end of a builder call whose exception is swallowed: the command goes
\* on to its write.
BuildEnd_GoesOn(r, next, done) ==
    IF r.exc # "none"
    THEN /\ built' = "failed"
         /\ result' = result
         /\ cpc' = next
         /\ UNCHANGED entity
    ELSE /\ built' = "ok"
         /\ entity' = r.val
         /\ cpc' = next
         /\ result' = IF next = "write" THEN result ELSE "returned"

\* The end of a builder call r: the entity, or the exception raised.
BuildEnd(r, next, done) ==
    IF r.exc # "none"
    THEN /\ built' = "failed"
         /\ result' = r.exc
         /\ cpc' = done
         /\ UNCHANGED entity
    ELSE /\ built' = "ok"
         /\ entity' = r.val
         /\ cpc' = next
         /\ result' = IF next = "write" THEN result ELSE "returned"

\* The command from P4InfoHelper(p4info) to update.entity...CopyFrom(...)
Build ==
    /\ cpc = "build"
    /\ BuildEnd(CommandBuild(command, pipeline, tbl_name, flow, parsed),
                "write", "teardown")
    /\ UNCHANGED << command, tbl_name, given, flow, client, parsed, npipe, pipeline,
                    call, writes, printed >>
    /\ UNCHANGED notCmd

\* client.write_update(update): one Write RPC. It returns, or the RPC fails
\* and parse_p4runtime_write_error raises the RpcError or the batch error, or
\* the decoding of the batch error never ends.
WriteOutcomes == {"returned", "RpcError", "P4RuntimeWriteException", "decoding"}

WriteUpdate(outcome) ==
    /\ cpc = "write"
    /\ writes' = Append(writes, [type |-> UpdateType(command), entity |-> entity])
    /\ result' = IF outcome = "decoding" THEN result ELSE outcome
    /\ cpc' = IF outcome = "decoding" THEN "decoding" ELSE "teardown"
    /\ UNCHANGED << command, tbl_name, given, flow, client, parsed, npipe, pipeline,
                    call, built, entity, printed >>
    /\ UNCHANGED notCmd

\* finally: if client: client.tear_down()
CmdTearDown ==
    /\ cpc = "teardown"
    /\ client' = "down"
    /\ cpc' = "done"
    /\ UNCHANGED << command, tbl_name, given, flow, parsed, npipe, pipeline, call,
                    built, entity, writes, printed, result >>
    /\ UNCHANGED notCmd

\* A caller of the library builds a table entry itself.
BuildTableEntryCall(tbl, c) ==
    /\ cpc = "idle"
    /\ call' = c
    /\ tbl_name' = tbl
    /\ pipeline' = P4Info
    /\ BuildEnd(Bind(buildTableEntry(P4Info, tbl, c.match_fields, c.default_action,
                                     c.action_name, c.action_params, c.group_id,
                                     c.member_id),
                     LAMBDA te : Ok(TableEntryOf(te))),
                "called", "called")
    /\ UNCHANGED << command, given, flow, client, parsed, npipe, writes, printed >>
    /\ UNCHANGED notCmd

\* print(_format_entry(helper, entry.table_entry)) of dump-entries: the line
\* is printed, or the exception of the formatter ends the command.
FormatEnd(r) ==
    IF r.exc = "none"
    THEN /\ printed' = Append(printed, r.val)
         /\ result' = "returned"
    ELSE /\ result' = r.exc
         /\ UNCHANGED printed

\* dump-entries comes to an entry that buildTableEntry made, with the same
\* schema.
FormatEntryCall ==
    /\ cpc = "called"
    /\ built = "ok"
    /\ cpc' = "formatted"
    /\ FormatEnd(FormatEntry(pipeline, entity.te))
    /\ UNCHANGED << command, tbl_name, given, flow, client, parsed, npipe, pipeline,
                    call, built, entity, writes >>
    /\ UNCHANGED notCmd

CmdNext ==
    \/ \E cmd \in Commands : \E tbl \in TableArgs(cmd) : \E g \in Givens(cmd) :
           Invoke(cmd, tbl, g)
    \/ ClientUp
    \/ ClientExit
    \/ ParseFlow
    \/ \E p \in Pipelines : GetP4Info(TRUE, p)
    \/ GetP4Info(FALSE, EmptyP4Info)
    \/ Build
    \/ \E outcome \in WriteOutcomes : WriteUpdate(outcome)
    \/ CmdTearDown
    \/ \E tbl \in { << "t" >>, << "T" >> } : \E c \in Calls : BuildTableEntryCall(tbl, c)
    \/ FormatEntryCall

\* The entry commands on the flows f=A,action=a(v), the device holding the
\* pipeline with the 32-bit field.
DirectNext ==
    \/ \E cmd \in EntryCommands : \E tbl \in TableArgs(cmd) : \E g \in DirectGivens :
           Invoke(cmd, tbl, g)
    \/ ClientUp
    \/ ClientExit
    \/ ParseFlow
    \/ GetP4Info(TRUE, P4InfoIPv4)
    \/ GetP4Info(FALSE, EmptyP4Info)
    \/ Build
    \/ \E outcome \in WriteOutcomes : WriteUpdate(outcome)
    \/ CmdTearDown


----------------------------------------------------------------------------
\* Calls of the codec

\* The arguments of the calls.
Widths == 1..MaxWidth \cup {16, 32}
Numbers == 0..MaxNumber \cup {65535, 65536, 16777216}

IPv4Parts == { << "0" >>, << "1", "0" >>, << "1", "2", "7" >>, << "2", "5", "5" >>,
               << "2", "5", "6" >>, << "0", "1", "0" >>, << "0", "8" >> }

\* Texts the IPv4 pattern accepts.
IPv4Texts ==
    { Join(<< p1, p2, p3, p4 >>, << "." >>) : p1, p2, p3, p4 \in IPv4Parts }

MacText == << "0", "0", ":", "1", "1", ":", "2", "2", ":", "a", "A", ":", "f", "f", ":", "0", "1" >>

\* Values handed to encode and to the field builders.
Values ==
    { StrV(<< "5" >>), StrV(<< "3", "0", "0" >>), StrV(<< "1", "0", ".", "0", ".", "0", ".", "1" >>),
      StrV(MacText), StrV(<< "a", "b" >>), StrV(<< "a", "b", "c", "d" >>),
      IntV(0), IntV(255), IntV(256), IntV(70000),
      TupV(<< "5" >>, 255), TupV(<< "3", "0", "0" >>, 7),
      TupV(<< "1", "0", ".", "0", ".", "0", ".", "1" >>, 24), TupV(MacText, 1) }

\* A pipeline with one field of every match type get_match_field_pb has a
\* branch for, one of a type it has none for, and parameters of several widths.
P4InfoKinds ==
    [ tables |-> <<
          [ preamble |-> [id |-> 13, name |-> << "k" >>, alias |-> << "K" >>],
            match_fields |-> <<
                [id |-> 1, name |-> << "e" >>, bitwidth |-> 32, match_type |-> "EXACT"],
                [id |-> 2, name |-> << "l" >>, bitwidth |-> 32, match_type |-> "LPM"],
                [id |-> 3, name |-> << "m" >>, bitwidth |-> 9, match_type |-> "TERNARY"],
                [id |-> 4, name |-> << "r" >>, bitwidth |-> 48, match_type |-> "RANGE"],
                [id |-> 5, name |-> << "x" >>, bitwidth |-> 8, match_type |-> "EXACT"],
                [id |-> 6, name |-> << "o" >>, bitwidth |-> 8, match_type |-> "OPTIONAL"] >> ] >>,
      actions |-> <<
          [ preamble |-> [id |-> 23, name |-> << "b" >>, alias |-> << "B" >>],
            params |-> << [id |-> 1, name |-> << "p" >>, bitwidth |-> 8],
                          [id |-> 2, name |-> << "q" >>, bitwidth |-> 48],
                          [id |-> 3, name |-> << "w" >>, bitwidth |-> 12] >> ] >>,
      action_profiles |-> <<
          [ preamble |-> [id |-> 33, name |-> << "c" >>, alias |-> << "C" >>] ] >> ]

NoResult == [exc |-> "none", val |-> <<>>]
NoArg == [x |-> IntV(0), bitwidth |-> 0]

LibIdle ==
    /\ apc = "idle"
    /\ fn = "none"
    /\ arg = NoArg
    /\ out = NoResult
    /\ back = NoResult

\* A call of function f with arguments a that ends with r.
Called(f, a, r) ==
    /\ apc = "idle"
    /\ apc' = "returned"
    /\ fn' = f
    /\ arg' = a
    /\ out' = r
    /\ UNCHANGED back
    /\ UNCHANGED notLib

\* The value returned is handed to a decoder, which ends with r.
Decoded(f, r) ==
    /\ apc = "returned"
    /\ fn = f
    /\ out.exc = "none"
    /\ apc' = "decoded"
    /\ back' = r
    /\ UNCHANGED << fn, arg, out >>
    /\ UNCHANGED notLib

\* encodeNum(number, bitwidth)
CallEncodeNum ==
    /\ apc = "idle"
    /\ \E number \in Numbers, bitwidth \in Widths :
           Called("encodeNum", [x |-> IntV(number), bitwidth |-> bitwidth],
                  encodeNum(number, bitwidth))

\* decodeNum(encoded_number) of the bytes encodeNum returned
CallDecodeNum ==
    /\ apc = "returned"
    /\ Decoded("encodeNum", Ok(decodeNum(out.val)))

\* encodeIPv4(ip_addr_string)
CallEncodeIPv4 ==
    /\ apc = "idle"
    /\ \E ip_addr_string \in IPv4Texts :
           Called("encodeIPv4", [x |-> StrV(ip_addr_string), bitwidth |-> 32],
                  encodeIPv4(ip_addr_string))

\* decodeIPv4(encoded_ip_addr) of the bytes encodeIPv4 returned
CallDecodeIPv4 ==
    /\ apc = "returned"
    /\ Decoded("encodeIPv4", decodeIPv4(out.val))

\* encodeIPv4_base10(ip_addr_string); the numbers of the model are below
\* 2^31, which a first part up to 127 gives.
CallEncodeIPv4Base10 ==
    /\ apc = "idle"
    /\ \E ip_addr_string \in IPv4Texts :
           /\ InetPart(Split(ip_addr_string, << "." >>)[1]) <= 127
           /\ Called("encodeIPv4_base10", [x |-> StrV(ip_addr_string), bitwidth |-> 32],
                     encodeIPv4_base10(ip_addr_string))

\* encode(x, bitwidth)
CallEncode ==
    /\ apc = "idle"
    /\ \E x \in Values, bitwidth \in {8, 9, 16, 32, 48} :
           Called("encode", [x |-> x, bitwidth |-> bitwidth], encode(x, bitwidth))

\* P4InfoHelper.get_match_field_pb(table_name, match_field_name, value)
CallGetMatchFieldPb ==
    /\ apc = "idle"
    /\ \E i \in 1..Len(P4InfoKinds.tables[1].match_fields), value \in Values :
           Called("get_match_field_pb",
                  [x |-> value, bitwidth |-> P4InfoKinds.tables[1].match_fields[i].bitwidth,
                   name |-> P4InfoKinds.tables[1].match_fields[i].name],
                  get_match_field_pb(P4InfoKinds, << "k" >>,
                                     P4InfoKinds.tables[1].match_fields[i].name, value))

\* P4InfoHelper.get_action_param_pb(action_name, param_name, value)
CallGetActionParamPb ==
    /\ apc = "idle"
    /\ \E i \in 1..Len(P4InfoKinds.actions[1].params), value \in Values :
           Called("get_action_param_pb",
                  [x |-> value, bitwidth |-> P4InfoKinds.actions[1].params[i].bitwidth,
                   name |-> P4InfoKinds.actions[1].params[i].name],
                  get_action_param_pb(P4InfoKinds, << "b" >>,
                                      P4InfoKinds.actions[1].params[i].name, value))

\* Values of the parameter of an entry that is formatted
ParamBytes == { << 0 >>, << 7 >>, << 255 >> }

\* The numbers of the model are below 2^31: bytes of a number of three bytes
SmallNumber(b) == \A i \in 1..(Len(b) - 3) : b[i] = 0

\* _format_entry of an entry of the table with the FieldMatch that
\* get_match_field_pb returned and an action with one parameter
CallFormatEntry ==
    /\ apc = "returned"
    /\ \E v \in ParamBytes :
           Decoded("get_match_field_pb",
                   FormatEntry(P4InfoKinds,
                               [table_id |-> 13, match |-> << out.val >>,
                                is_default_action |-> FALSE,
                                action |-> [NoTableAction EXCEPT
                                               !.type = "action", !.action_id = 23,
                                               !.params = << [param_id |-> 1, value |-> v] >>]]))

\* _format_member of a member with the parameter get_action_param_pb returned
CallFormatMember ==
    /\ apc = "returned"
    /\ fn = "get_action_param_pb"
    /\ out.exc = "none"
    /\ SmallNumber(out.val.value)
    /\ Decoded("get_action_param_pb",
               FormatMember(P4InfoKinds,
                            [action_profile_id |-> 33, member_id |-> 1, has_action |-> TRUE,
                             action_id |-> 23, params |-> << out.val >>]))

CodecNext ==
    \/ CallEncodeNum
    \/ CallDecodeNum
    \/ CallEncodeIPv4
    \/ CallDecodeIPv4
    \/ CallEncodeIPv4Base10
    \/ CallEncode
    \/ CallGetMatchFieldPb
    \/ CallGetActionParamPb
    \/ CallFormatEntry
    \/ CallFormatMember

----------------------------------------------------------------------------
\* Calls of the schema index

EntityTypes == {"tables", "actions", "action_profiles"}
EntityNames == { << "x" >>, << "y" >> }
EntityAliases == { << "x" >>, << "y" >>, << "X" >>, <<>> }
\* The names looked up: those above and one that no entity has.
LookupNames == EntityAliases \cup { << "n" >> }

Preambles == [id : 1..MaxEntities, name : EntityNames, alias : EntityAliases]

\* The lists of entities of one kind, their ids unique.
EntityLists ==
    { os \in UNION { [1..n -> Preambles] : n \in 0..MaxEntities } :
          \A i, j \in 1..Len(os) : i # j => os[i].id # os[j].id }

\* The P4Info whose entities of kind entity_type have the preambles os.
SchemaOf(entity_type, os) ==
    [EmptyP4Info EXCEPT ![entity_type] = [i \in 1..Len(os) |-> [preamble |-> os[i]]]]

\* The pipelines whose fields and parameters are looked up.
FieldSchemas == {P4Info, EmptyP4Info, P4InfoKinds}
FieldNames == { << "f" >>, << "e" >>, << "p" >>, << "n" >> }
OwnerNames == { << "t" >>, << "T" >>, << "k" >>, << "a" >>, << "A" >>, << "b" >>, << "n" >> }

LookupArg(p4info, entity_type, name, id) ==
    [p4info |-> p4info, entity_type |-> entity_type, name |-> name, id |-> id,
     owner |-> <<>>]

FieldArg(p4info, owner, name) ==
    [p4info |-> p4info, entity_type |-> "none", name |-> name, id |-> 0,
     owner |-> owner]

\* get_id(entity_type, name)
CallGetId ==
    /\ apc = "idle"
    /\ \E entity_type \in EntityTypes, os \in EntityLists, name \in LookupNames :
           Called("get_id", LookupArg(SchemaOf(entity_type, os), entity_type, name, 0),
                  get_id(SchemaOf(entity_type, os), entity_type, name))

\* get_name(entity_type, id)
CallGetName ==
    /\ apc = "idle"
    /\ \E entity_type \in EntityTypes, os \in EntityLists, id \in 0..(MaxEntities + 1) :
           Called("get_name", LookupArg(SchemaOf(entity_type, os), entity_type, <<>>, id),
                  get_name(SchemaOf(entity_type, os), entity_type, id))

\* get_name(entity_type, i) of the id i that get_id returned
CallGetNameOfId ==
    /\ apc = "returned"
    /\ Decoded("get_id", get_name(arg.p4info, arg.entity_type, out.val))

\* get_id(entity_type, n) of the name n that get_name returned
CallGetIdOfName ==
    /\ apc = "returned"
    /\ Decoded("get_name", get_id(arg.p4info, arg.entity_type, out.val))

\* get_match_fields(table_name)
CallGetMatchFields ==
    /\ apc = "idle"
    /\ \E p4info \in FieldSchemas, table_name \in OwnerNames :
           Called("get_match_fields", FieldArg(p4info, table_name, <<>>),
                  Ok(get_match_fields(p4info, table_name)))

\* get_match_field(table_name, name=name)
CallGetMatchField ==
    /\ apc = "idle"
    /\ \E p4info \in FieldSchemas, table_name \in OwnerNames, name \in FieldNames :
           Called("get_match_field", FieldArg(p4info, table_name, name),
                  get_match_field(p4info, table_name, name))

\* get_action_params(action_name)
CallGetActionParams ==
    /\ apc = "idle"
    /\ \E p4info \in FieldSchemas, action_name \in OwnerNames :
           Called("get_action_params", FieldArg(p4info, action_name, <<>>),
                  Ok(get_action_params(p4info, action_name)))

\* get_action_param(action_name, name=name)
CallGetActionParam ==
    /\ apc = "idle"
    /\ \E p4info \in FieldSchemas, action_name \in OwnerNames, name \in FieldNames :
           Called("get_action_param", FieldArg(p4info, action_name, name),
                  get_action_param(p4info, action_name, name))

\* The entries built by name and by alias: the table, the action, a match
\* field or none, a parameter or none.
BuildArgs ==
    { [p4info |-> P4Info, entity_type |-> "none", name |-> an, id |-> 0, owner |-> tn,
       match_fields |-> mf, action_params |-> ap] :
          tn \in { << "t" >>, << "T" >>, << "n" >> },
          an \in { <<>>, << "a" >>, << "A" >> },
          mf \in { <<>>, << [k |-> << "f" >>, v |-> StrV(<< "5" >>)] >> },
          ap \in { <<>>, << [k |-> << "p" >>, v |-> IntV(7)] >> } }

\* buildTableEntry(table_name, match_fields, action_name=, action_params=)
CallBuildTableEntry ==
    /\ apc = "idle"
    /\ \E a \in BuildArgs :
           Called("buildTableEntry", a,
                  buildTableEntry(a.p4info, a.owner, a.match_fields, FALSE, a.name,
                                  a.action_params, 0, 0))

SchemaNext ==
    \/ CallGetId
    \/ CallGetName
    \/ CallGetNameOfId
    \/ CallGetIdOfName
    \/ CallGetMatchFields
    \/ CallGetMatchField
    \/ CallGetActionParams
    \/ CallGetActionParam
    \/ CallBuildTableEntry

----------------------------------------------------------------------------
\* Specifications

\* The state after start-up: no client constructed, no write in progress.
Init == SessInit /\ DecIdle /\ CmdIdle /\ LibIdle

SpecSession == Init /\ [][SessNext]_vars

\* The threads of the process run whenever they can and time passes; nothing
\* is assumed of the device, nor of the caller's later calls.
SessFairness ==
    /\ WF_vars(Construct)
    /\ WF_vars(HandshakePut)
    /\ WF_vars(GetStreamPacket)
    /\ WF_vars(Tick)
    /\ WF_vars(HandshakeFinish)
    /\ WF_vars(ProcessExit)
    /\ WF_vars(ApiReturn)
    /\ WF_vars(TearDownJoin)
    /\ WF_vars(TearDownClose)
    /\ WF_vars(RecvMessage)
    /\ WF_vars(RecvFailure)
    /\ WF_vars(RecvEnd)
    /\ WF_vars(StreamReqIterator)

SpecSessionFair == Init /\ [][SessNext]_vars /\ SessFairness

\* The device ends the stream once the client has closed its sending half,
\* that is, once the request generator has ended.
DeviceEndAfterClose == genpc = "done" /\ DeviceEnd

\* The threads run whenever they can, and the device answers the end of the
\* requests with the end of the stream.
SpecSessionClosing ==
    Init /\ [][SessNext]_vars /\ SessFairness /\ WF_vars(DeviceEndAfterClose)

SpecDecoder == Init /\ [][DecNext]_vars

\* The caller thread runs the decoder whenever it can.
\* One command line from dispatch to the end of with_client's handle.
SpecCmd == Init /\ [][CmdNext]_vars

SpecDirect == Init /\ [][DirectNext]_vars

\* One call of a function of the codec, and of its decoder on the result.
SpecCodec == Init /\ [][CodecNext]_vars

\* One lookup in the schema index, and the inverse lookup of its result.
SpecSchema == Init /\ [][SchemaNext]_vars

SpecDecoderFair ==
    /\ Init /\ [][DecNext]_vars
    /\ WF_vars(HandleRpcError)
    /\ WF_vars(ErrorIteratorInit)
    /\ WF_vars(ErrorIteratorNext)

----------------------------------------------------------------------------
\* Claims on the session

Last(s) == s[Len(s)]

\* C1: when get_stream_packet hands handshake a message, the session is
\* Master exactly when that message's status code is OK and Slave otherwise;
\* construction then completes (no exit), and the arbitration request was
\* enqueued before the wait.
C1_ArbitrationOutcome ==
    /\ session \in {"Master", "Slave"} =>
          /\ rep # NoneMsg
          /\ HasField(rep, "arbitration")
          /\ rep \in { arrived[i] : i \in 1..Len(arrived) }
          /\ (session = "Master") <=> (rep.code = "OK")
          /\ (session = "Slave") <=> (rep.code # "OK")
          /\ mainpc \notin {"exiting", "terminated"}
          /\ ArbitrationRequest \in
                 { stream_out_q[i] : i \in 1..Len(stream_out_q) }
                     \cup { sent[i] : i \in 1..Len(sent) }
    /\ mainpc \in {"exiting", "terminated"} => rep = NoneMsg /\ ret = NoneMsg
    /\ mainpc = "ready" => session \in {"Master", "Slave"}

C1_Witness ==
    /\ session = "Slave"
    /\ rep.code = "ALREADY_EXISTS"
    /\ mainpc = "ready"
    /\ discarded # {}

\* C2: once handshake has obtained no arbitration message, the process
\* reaches its terminated state.
C2_TimeoutTerminates ==
    (mainpc = "gsp_ret" /\ caller = "handshake" /\ ret = NoneMsg)
        ~> (mainpc = "terminated")

\* The case of C2: handshake gave up, SystemExit is raised, and the receiver
\* thread is still blocked on a stream the device keeps open.
C2_Witness ==
    /\ mainpc = "exiting"
    /\ recvpc = "running"
    /\ stream = "open"
    /\ wire = <<>>

\* C3 (safety part): a call of get_stream_packet returns the first message, in
\* arrival order, with the requested field, if it was dequeued before the
\* timeout and before a None; it returns None only on timeout or on a None;
\* non-matching messages it dequeued are gone from the queue and are never
\* returned by this or a later call.
C3_Returned ==
    /\ arrived = dequeued \o stream_in_q
    /\ \E k \in 0..Len(dequeued) :
           consumed = SubSeq(dequeued, k + 1, Len(dequeued))
    /\ mainpc = "gsp_ret" =>
          /\ \A i \in 1..(Len(consumed) - 1) :
                 consumed[i] # NoneMsg /\ ~HasField(consumed[i], type_)
          /\ IF ret # NoneMsg
             THEN /\ consumed # <<>>
                  /\ ret = Last(consumed)
                  /\ HasField(ret, type_)
                  /\ ret.id \notin discarded
             ELSE /\ \A i \in 1..Len(consumed) : ~HasField(consumed[i], type_)
                  /\ \/ elapsed >= timeout
                     \/ consumed # <<>> /\ Last(consumed) = NoneMsg
    /\ \A m \in { stream_in_q[i] : i \in 1..Len(stream_in_q) } :
           m.id \notin discarded \/ m = NoneMsg

\* C3: the safety part, and every call returns.
C3_GetStreamPacket ==
    /\ []C3_Returned
    /\ (mainpc = "gsp") ~> (mainpc = "gsp_ret")

\* A call that skipped a non-matching message and then returned a matching one.
C3_Witness ==
    /\ mainpc = "gsp_ret"
    /\ ret # NoneMsg
    /\ Len(consumed) >= 2
    /\ elapsed >= 1

----------------------------------------------------------------------------
\* Claims on write() and the error decoder

\* The tuples (i, code_i, message_i) of the entries of d whose code is not OK,
\* by increasing i (i counted from 0, as the positions of the batch).
ExpectedErrors(d) ==
    SelectSeq([i \in 1..Len(d) |->
                   [index |-> i - 1, canonical_code |-> d[i].canonical_code,
                    message |-> d[i].message]],
              LAMBDA r : r.canonical_code # "OK")

AllP4Errors(d) == \A i \in 1..Len(d) : d[i].p4error

\* C4: for a details list of p4.Error entries the decoder yields exactly the
\* tuples of the entries whose code is not OK, in batch order, skipping the OK
\* ones: the iteration that starts on the list ends with that list of tuples.
C4_DecoderYieldsAll ==
    (wpc = "iter" /\ idx = 0 /\ AllP4Errors(it_errors))
        ~> (/\ wpc = "raised"
            /\ raised.type = "P4RuntimeWriteException"
            /\ raised.errors = ExpectedErrors(it_errors))

\* The case of C4: the decoder stands on an OK entry that a failed entry follows.
C4_Witness ==
    /\ wpc = "iter"
    /\ Len(it_errors) = 2
    /\ idx = 0
    /\ it_errors[1].p4error /\ it_errors[1].canonical_code = "OK"
    /\ it_errors[2].p4error /\ it_errors[2].canonical_code = "NOT_FOUND"

\* Positions of the binary status-details pairs in the trailing metadata.
BinEntries(md) == { i \in 1..Len(md) : md[i].key = "grpc-status-details-bin" }

FirstBin(md) == CHOOSE i \in BinEntries(md) : \A j \in BinEntries(md) : i <= j

Malformed(e) ==
    \/ BinEntries(e.trailing_metadata) = {}
    \/ e.trailing_metadata[FirstBin(e.trailing_metadata)].details = <<>>

\* C5: an UNKNOWN failure without binary status-details pair, or whose status
\* has no details, raises the format exception: no write exception and no
\* list of errors is produced; the status parsed is that of the first binary
\* status-details pair.
C5_MalformedPayload ==
    /\ (grpc_error.code = "UNKNOWN" /\ Malformed(grpc_error)) =>
          /\ wpc \in {"handle", "iter_init", "raised"}
          /\ exc_errors = <<>>
          /\ wpc = "raised" =>
                 /\ raised.type = "P4RuntimeErrorFormatException"
                 /\ raised.errors = <<>>
    /\ wpc = "iter" =>
          /\ ~Malformed(grpc_error)
          /\ it_errors =
                 grpc_error.trailing_metadata[FirstBin(grpc_error.trailing_metadata)].details

\* An UNKNOWN failure whose first binary pair has no details and whose second
\* one has some: the format exception was raised.
C5_Witness ==
    /\ wpc = "raised"
    /\ raised.type = "P4RuntimeErrorFormatException"
    /\ Len(grpc_error.trailing_metadata) = 2
    /\ BinEntries(grpc_error.trailing_metadata) = {1, 2}
    /\ grpc_error.trailing_metadata[1].details = <<>>
    /\ grpc_error.trailing_metadata[2].details # <<>>

\* C6: a failure with status code UNKNOWN goes to the error decoder, and what
\* is surfaced for it is the decoder's write exception (or its format
\* exception); a failure with any other code is surfaced as the RPC error with
\* the transport code and message, the decoder is not invoked, and no write
\* exception is reported.
C6_ErrorClassification ==
    /\ decoding => grpc_error.code = "UNKNOWN"
    /\ wpc \in {"iter_init", "iter"} => grpc_error.code = "UNKNOWN"
    /\ wpc = "raised" =>
          /\ grpc_error.code # "UNKNOWN" =>
                 /\ raised = [type |-> "RpcError", code |-> grpc_error.code,
                              message |-> grpc_error.details, errors |-> <<>>]
                 /\ ~decoding
          /\ grpc_error.code = "UNKNOWN" =>
                 /\ decoding
                 /\ raised.type \in {"P4RuntimeWriteException",
                                     "P4RuntimeErrorFormatException"}
                 /\ raised.type = "P4RuntimeWriteException" <=>
                        (~Malformed(grpc_error) /\ AllP4Errors(it_errors))

\* A PERMISSION_DENIED failure that carries a well-formed binary status:
\* surfaced as RPC error all the same.
C6_Witness ==
    /\ wpc = "raised"
    /\ raised.type = "RpcError"
    /\ grpc_error.code = "PERMISSION_DENIED"
    /\ ~Malformed(grpc_error)

----------------------------------------------------------------------------
\* Commands: what reaches the wire

\* The id the profile command read from its flow, once the flow is parsed.
ParsedId ==
    IF command \in {"add-action-profile-group", "delete-action-profile-group"}
    THEN parsed.group_id ELSE parsed.member_id

\* The flow of an add/delete group/member command was parsed and its id is 0.
ZeroIdParsed ==
    /\ command \in ProfileCommands
    /\ ParsedId.t = "str"
    /\ PyInt(ParsedId.s) = Ok(0)

\* C7: in add-group, delete-group, add-member and delete-member, once the
\* flow's group_id or member_id has parsed to 0 the command never fetches the
\* pipeline and never issues a Write; it prints the warning and returns
\* normally.
C7_ZeroIdRejected ==
    ZeroIdParsed =>
        /\ npipe = 0
        /\ writes = <<>>
        /\ printed = << ZeroIdWarning(command) >>
        /\ result = "returned"
        /\ cpc \in {"teardown", "done"}

\* Each of the four commands has returned on an id of 0 and its session was
\* torn down.
C7_Witness ==
    /\ ZeroIdParsed
    /\ command = "add-action-profile-member"
    /\ cpc = "done"
    /\ client = "down"
    /\ printed # <<>>

\* C8: every table entry buildTableEntry returns with is_default_action set
\* carries no match fields, whatever match_fields mapping it was called with.
C8_DefaultEntryHasNoMatch ==
    (built = "ok" /\ entity.kind = "table_entry" /\ entity.te.is_default_action)
        => entity.te.match = <<>>

\* buildTableEntry was called with default_action=True and a non-empty
\* match_fields mapping, and returned an entry.
C8_Witness ==
    /\ cpc = "called"
    /\ built = "ok"
    /\ call.default_action
    /\ call.match_fields # <<>>

\* The action-reference variants a table entry's action populates.
VariantsOf(a) ==
    (IF a.type = "action" \/ a.action_id # 0 \/ a.params # <<>>
     THEN {"DirectAction"} ELSE {})
    \cup (IF a.type = "action_profile_member_id" \/ a.action_profile_member_id # 0
          THEN {"MemberRef"} ELSE {})
    \cup (IF a.type = "action_profile_group_id" \/ a.action_profile_group_id # 0
          THEN {"GroupRef"} ELSE {})

\* C9: every table entry add-entry or modify-entry hands to a Write populates
\* exactly one of DirectAction, MemberRef and GroupRef.
C9_ExactlyOneVariant ==
    command \in EntryCommands =>
        \A i \in 1..Len(writes) :
            Cardinality(VariantsOf(writes[i].entity.te.action)) = 1

\* add-entry or modify-entry has written an entry for a flow that ends in
\* group_id=0 or member_id=0.
C9_Witness ==
    /\ command \in EntryCommands
    /\ given.tail \in {"group_id", "member_id"}
    /\ given.id = 0
    /\ writes # <<>>

\* The match field of table t a piece of a flow names, if any.
FieldsNamed(p) ==
    { m \in { P4Info.tables[1].match_fields[j] :
                  j \in 1..Len(P4Info.tables[1].match_fields) } : m.name = p.name }

\* A piece names a match field of the table in the form of its match type,
\* with a value of its width.
ValidPiece(p) ==
    \E m \in FieldsNamed(p) :
        /\ p.num < 2 ^ m.bitwidth
        /\ (m.match_type = "EXACT") <=> (p.plen = <<>>)

\* The FieldMatch a valid piece stands for.
ExpectedFieldMatch(p) ==
    LET m == CHOOSE m \in FieldsNamed(p) : TRUE IN
    IF m.match_type = "EXACT"
    THEN [NoFieldMatch EXCEPT !.field_id = m.id, !.field_match_type = "exact",
                              !.value = encodeNum(p.num, m.bitwidth).val]
    ELSE [NoFieldMatch EXCEPT !.field_id = m.id, !.field_match_type = "lpm",
                              !.value = encodeNum(p.num, m.bitwidth).val,
                              !.prefix_len = p.plen[1]]

\* add-entry / modify-entry on table t with a flow f1=v1,...,fk=vk,group_id=N
\* or ...,member_id=N: k >= 1 distinct match fields of the table, N > 0; the
\* pipeline was fetched and the builder has run.
IndirectFlowBuilt ==
    /\ command \in EntryCommands
    /\ tbl_name = P4Info.tables[1].preamble.name
    /\ pipeline = P4Info
    /\ given.tail \in {"group_id", "member_id"}
    /\ given.id > 0
    /\ \A i \in 1..Len(given.fields) : ValidPiece(given.fields[i])
    /\ \A i, j \in 1..Len(given.fields) :
           i # j => given.fields[i].name # given.fields[j].name
    /\ built # "no"

\* C10: for such a flow the entry built carries all k match fields with their
\* encoded values and the reference GroupRef(N), respectively MemberRef(N).
C10_IndirectFlowEntry ==
    IndirectFlowBuilt =>
        /\ built = "ok"
        /\ Len(entity.te.match) = Len(given.fields)
        /\ { entity.te.match[i] : i \in 1..Len(entity.te.match) }
               = { ExpectedFieldMatch(given.fields[i]) : i \in 1..Len(given.fields) }
        /\ entity.te.action =
               IF given.tail = "group_id"
               THEN [NoTableAction EXCEPT !.type = "action_profile_group_id",
                                          !.action_profile_group_id = given.id]
               ELSE [NoTableAction EXCEPT !.type = "action_profile_member_id",
                                          !.action_profile_member_id = given.id]

\* Such a flow with two match fields was built and written.
C10_Witness ==
    /\ IndirectFlowBuilt
    /\ Len(given.fields) = 2
    /\ writes # <<>>

\* The tokens m1, ..., mk of a reference_members text "(m1,...,mk)".
MemberTokens(members) == Split(SubSeq(members, 2, Len(members) - 1), << "," >>)

\* The numbers of the tokens that are decimal numerals, in order.
RECURSIVE IntegerTokens(_, _)
IntegerTokens(tokens, i) ==
    IF i > Len(tokens) THEN <<>>
    ELSE (IF IsDigit(tokens[i]) THEN << DecValue(tokens[i]) >> ELSE <<>>)
         \o IntegerTokens(tokens, i + 1)

\* C11: the ActionProfileGroup add-group writes for the flow
\* group_id=G,reference_members=(m1,...,mk),max_size=S has group_id G,
\* max_size S and as members, in order, the integer tokens among m1..mk, each
\* token taken as one decimal number.
C11_GroupMembers ==
    (command = "add-action-profile-group" /\ writes # <<>>) =>
        /\ writes[1].entity.kind = "action_profile_group"
        /\ writes[1].entity.apg.group_id = given.id
        /\ writes[1].entity.apg.max_size = 2
        /\ writes[1].entity.apg.members = IntegerTokens(MemberTokens(given.members), 1)

\* add-group has written a group whose reference_members holds a token of
\* two digits.
C11_Witness ==
    /\ command = "add-action-profile-group"
    /\ writes # <<>>
    /\ \E i \in 1..Len(MemberTokens(given.members)) :
           Len(MemberTokens(given.members)[i]) = 2

\* add-entry was given the flow f=A,action=a(v) for table t of the pipeline
\* with the 32-bit EXACT field, and its builder call is over.
DirectFlowBuilt ==
    /\ command = "add-entry"
    /\ tbl_name = << "t" >>
    /\ given.tail = "direct"
    /\ pipeline = P4InfoIPv4
    /\ built # "no"

\* C12: for a table t with one EXACT field f of 32 bits and an action a with
\* one parameter p of 8 bits, add-entry with the flow f=A,action=a(v), A a
\* dotted-quad address and 0 <= v < 2^8, builds a TableEntry with the id of
\* t, the exact match encodeIPv4(A) on f, the id of a and the one parameter
\* value encodeNum(v, 8).
C12_DirectFlowEntry ==
    DirectFlowBuilt =>
        /\ built = "ok"
        /\ entity.kind = "table_entry"
        /\ entity.te.table_id = P4InfoIPv4.tables[1].preamble.id
        /\ Len(entity.te.match) = 1
        /\ entity.te.match[1].field_id = P4InfoIPv4.tables[1].match_fields[1].id
        /\ entity.te.match[1].field_match_type = "exact"
        /\ entity.te.match[1].value = encodeIPv4(given.addr).val
        /\ Len(entity.te.match[1].value) = 4
        /\ entity.te.action.type = "action"
        /\ entity.te.action.action_id = P4InfoIPv4.actions[1].preamble.id
        /\ Len(entity.te.action.params) = 1
        /\ entity.te.action.params[1].param_id = P4InfoIPv4.actions[1].params[1].id
        /\ entity.te.action.params[1].value = encodeNum(given.val, 8).val
        /\ (writes # <<>> => writes[1].entity = entity /\ writes[1].type = "INSERT")

\* The entry of f=192.168.1.20,action=a(255) was written.
C12_Witness ==
    /\ DirectFlowBuilt
    /\ writes # <<>>
    /\ given.val = 255
    /\ entity.te.match[1].value = << 192, 168, 1, 20 >>
    /\ entity.te.action.params[1].value = << 255 >>

----------------------------------------------------------------------------
\* Claims on tear_down

\* The number of close sentinels waiting on the outbound queue.
SentinelsQueued == Cardinality({ i \in 1..Len(stream_out_q) : stream_out_q[i] = NoneMsg })

\* tear_down's order, as a state predicate: the channel is closed only after
\* the sentinel was enqueued and the receiver thread has ended; it is closed
\* at most once, and exactly once when a tear_down has run to its end; the
\* generator has ended once it has taken a sentinel off the queue.
TearDownOrder ==
    /\ mainpc \in {"td_join", "td_close"} => teardowns >= 1
    /\ mainpc = "td_close" => recvpc = "done"
    /\ closes >= 1 => teardowns >= 1 /\ recvpc = "done" /\ channel = "deleted"
    /\ closes <= 1
    /\ (mainpc = "closed") => closes = 1
    /\ SentinelsQueued <= teardowns
    /\ SentinelsQueued < teardowns => genpc = "done"

\* The generator that has ended yields nothing more, and the step that takes
\* the sentinel off the queue ends it without a send.
GeneratorStops ==
    /\ genpc = "done" => genpc' = "done" /\ sent' = sent
    /\ (stream_out_q # <<>> /\ Head(stream_out_q) = NoneMsg
            /\ stream_out_q' = Tail(stream_out_q))
          => genpc' = "done" /\ sent' = sent

\* C13: tear_down enqueues the close sentinel, then waits for the receiver
\* thread to end, then closes the channel; the channel is closed at most
\* once and exactly once by a completed tear_down; once the sentinel has been
\* dequeued the request generator sends nothing further.
C13_TearDownOrder == []TearDownOrder /\ [][GeneratorStops]_vars

\* A tear_down has run to its end after the arbitration request was sent: the
\* generator took the sentinel and the channel is closed.
C13_Witness ==
    /\ mainpc = "closed"
    /\ closes = 1
    /\ genpc = "done"
    /\ SentinelsQueued = 0
    /\ sent = << ArbitrationRequest >>

\* C14: tear_down is not called on a client whose construction failed and
\* raises nothing there; called a second time on a torn-down client it
\* raises no error and does not close the channel again.
C14_TearDownIdempotent ==
    /\ mainpc \in {"exiting", "terminated"} => teardowns = 0 /\ closes = 0
    /\ td_exc = "none"
    /\ closes <= 1

\* A second tear_down on a torn-down client has run to its end.
C14_Witness ==
    /\ teardowns = 2
    /\ mainpc = "closed"
    /\ closes = 1

----------------------------------------------------------------------------
\* Claims on the codec

\* ceil(w / 8)
CeilBytes(w) == IF w % 8 = 0 THEN w \div 8 ELSE (w \div 8) + 1

\* n < 2^w, for the numbers of the model
Fits(n, w) == w >= 31 \/ n < 2 ^ w

\* b is n in big-endian order, padded with zero bytes on the left
IsBigEndian(b, n) == \A i \in 1..Len(b) : b[i] = (n \div (256 ^ (Len(b) - i))) % 256

\* C15: for every bit width w >= 1 and every n with 0 <= n < 2^w,
\* encodeNum(n, w) returns ceil(w/8) bytes, n in big-endian order padded
\* with zeros on the left, and decodeNum of them is n.
C15_IntegerRoundTrip ==
    (fn = "encodeNum" /\ arg.bitwidth >= 1 /\ Fits(arg.x.n, arg.bitwidth)) =>
        /\ out.exc = "none"
        /\ Len(out.val) = CeilBytes(arg.bitwidth)
        /\ IsBigEndian(out.val, arg.x.n)
        /\ apc = "decoded" => back = Ok(arg.x.n)

\* 300 went through 9 bits and back.
C15_Witness ==
    /\ apc = "decoded"
    /\ fn = "encodeNum"
    /\ arg.bitwidth = 9
    /\ arg.x.n = 300
    /\ out.val = << 1, 44 >>
    /\ back.val = 300

\* C16: for every bit width w and every n >= 2^w, encodeNum(n, w) raises
\* its "does not fit" exception and returns no bytes, also when n fits in
\* ceil(w/8) bytes.
C16_OverflowRejected ==
    (fn = "encodeNum" /\ ~Fits(arg.x.n, arg.bitwidth)) =>
        /\ out.exc = "Exception"
        /\ out.val = <<>>
        /\ apc = "returned"

\* 512 was refused for 9 bits, though it fits in two bytes.
C16_Witness ==
    /\ fn = "encodeNum"
    /\ arg.bitwidth = 9
    /\ arg.x.n = 512
    /\ out.exc = "Exception"

\* The byte-valued components set in a FieldMatch.
Components(fm) ==
    CASE fm.field_match_type = "exact" -> {fm.value}
      [] fm.field_match_type = "lpm" -> {fm.value}
      [] fm.field_match_type = "ternary" -> {fm.value, fm.mask}
      [] fm.field_match_type = "range" -> {fm.low, fm.high}
      [] OTHER -> {}

\* C17: whatever encode returns has the length ceil(bitwidth/8), and so has
\* every value, mask, low and high of a FieldMatch and every parameter value
\* the builders return; an encoding of another length (a MAC literal for a
\* 32-bit field) makes encode fail.
C17_FixedWidth ==
    /\ (fn = "encode" /\ out.exc = "none") =>
           Len(out.val) = CeilBytes(arg.bitwidth)
    /\ (fn = "encode" /\ arg.x = StrV(MacText) /\ arg.bitwidth # 48) =>
           out.exc # "none"
    /\ (fn = "get_match_field_pb" /\ out.exc = "none") =>
           /\ Components(out.val) # {}
           /\ \A c \in Components(out.val) : Len(c) = CeilBytes(arg.bitwidth)
    /\ (fn = "get_action_param_pb" /\ out.exc = "none") =>
           Len(out.val.value) = CeilBytes(arg.bitwidth)

\* A ternary match on the 9-bit field was built: value and mask of two bytes.
C17_Witness ==
    /\ fn = "get_match_field_pb"
    /\ out.exc = "none"
    /\ out.val.field_match_type = "ternary"
    /\ out.val.value = << 0, 5 >>
    /\ out.val.mask = << 0, 255 >>

\* The four parts of a text the IPv4 pattern accepts, as decimal numbers.
AddressBytes(a) == [i \in 1..4 |-> DecValue(Split(a, << "." >>)[i])]

\* C18: for every text a the IPv4 pattern accepts, encodeIPv4(a) is the four
\* bytes of the address in big-endian order, decodeIPv4 of them is a, and
\* encodeIPv4_base10(a) is decodeNum(encodeIPv4(a)).
C18_IPv4RoundTrip ==
    /\ fn = "encodeIPv4" =>
           /\ out.exc = "none"
           /\ out.val = AddressBytes(arg.x.s)
           /\ apc = "decoded" => back = Ok(arg.x.s)
    /\ fn = "encodeIPv4_base10" =>
           /\ out.exc = "none"
           /\ out.val = decodeNum(encodeIPv4(arg.x.s).val)

\* 10.0.127.255 went through encodeIPv4 and back.
C18_Witness ==
    /\ apc = "decoded"
    /\ fn = "encodeIPv4"
    /\ out.val = << 10, 0, 127, 255 >>
    /\ back.val = arg.x.s

----------------------------------------------------------------------------
\* Claims on the schema index

\* The preambles of the entities a lookup by name or id went through.
LookedIn ==
    IF fn \in {"get_id", "get_name"}
    THEN [i \in 1..Len(Entities(arg.p4info, arg.entity_type)) |->
              Entities(arg.p4info, arg.entity_type)[i].preamble]
    ELSE <<>>

\* What the claim says of entity e: the id found by the name of e.id is
\* e.id, the name found by the id of e.name is e.name, and the alias of e
\* finds the id its name finds.
LookupsAgree(e) ==
    /\ (fn = "get_name" /\ arg.id = e.id) =>
           /\ out.exc = "none"
           /\ apc = "decoded" => back = Ok(e.id)
    /\ (fn = "get_id" /\ arg.name = e.name) =>
           /\ out.exc = "none"
           /\ apc = "decoded" => back = Ok(e.name)
    /\ (fn = "get_id" /\ arg.name = e.alias) =>
           out = get_id(arg.p4info, arg.entity_type, e.name)

\* C19 as the specification states it: in every schema with unique ids per
\* kind, for every entity e, get_id(get_name(e.id)) = e.id,
\* get_name(get_id(e.name)) = e.name and get_id(e.alias) = get_id(e.name).
C19_LookupsConsistent_AnySchema ==
    \A i \in 1..Len(LookedIn) : LookupsAgree(LookedIn[i])

\* Names and aliases are not empty, and no entity's name or alias is the name
\* or the alias of another entity of the kind.
DistinctNames(os) ==
    /\ \A i \in 1..Len(os) : os[i].name # <<>> /\ os[i].alias # <<>>
    /\ \A i, j \in 1..Len(os) :
           i # j => {os[i].name, os[i].alias} \cap {os[j].name, os[j].alias} = {}

\* C19: in every schema with unique ids per kind whose names and aliases are
\* not empty and belong to one entity of the kind only, for every entity e,
\* get_id(get_name(e.id)) = e.id, get_name(get_id(e.name)) = e.name and
\* get_id(e.alias) = get_id(e.name).
C19_LookupsConsistent ==
    DistinctNames(LookedIn) =>
        \A i \in 1..Len(LookedIn) : LookupsAgree(LookedIn[i])

\* The name of the second of two entities went to its id and back.
C19_Witness ==
    /\ apc = "decoded"
    /\ fn = "get_id"
    /\ Len(LookedIn) = 2
    /\ DistinctNames(LookedIn)
    /\ arg.name = LookedIn[2].name
    /\ LookedIn[2].alias # LookedIn[2].name
    /\ back = Ok(arg.name)

\* The lookup found nothing to return: no entity of the name, alias or id, no
\* table or action of the name, or no field or parameter of the name in it.
NoMatch ==
    CASE fn = "get_id" ->
             \A i \in 1..Len(LookedIn) :
                 LookedIn[i].name # arg.name /\ LookedIn[i].alias # arg.name
      [] fn = "get_name" ->
             \A i \in 1..Len(LookedIn) : LookedIn[i].id # arg.id
      [] fn = "get_match_fields" ->
             \A i \in 1..Len(arg.p4info.tables) :
                 arg.p4info.tables[i].preamble.name # arg.owner
      [] fn = "get_match_field" ->
             \A i \in 1..Len(arg.p4info.tables) :
                 arg.p4info.tables[i].preamble.name = arg.owner =>
                     \A k \in 1..Len(arg.p4info.tables[i].match_fields) :
                         arg.p4info.tables[i].match_fields[k].name # arg.name
      [] fn = "get_action_params" ->
             \A i \in 1..Len(arg.p4info.actions) :
                 arg.p4info.actions[i].preamble.name # arg.owner
      [] fn = "get_action_param" ->
             \A i \in 1..Len(arg.p4info.actions) :
                 arg.p4info.actions[i].preamble.name = arg.owner =>
                     \A k \in 1..Len(arg.p4info.actions[i].params) :
                         arg.p4info.actions[i].params[k].name # arg.name
      [] OTHER -> FALSE

\* The lookup returned None.
ReturnedNone ==
    /\ fn \in {"get_match_fields", "get_action_params"}
    /\ out.exc = "none"
    /\ out.val.none

\* C20: a lookup with no match in the schema raises AttributeError; no
\* lookup returns None, and none raises another exception, whatever the
\* schema holds.
C20_LookupFailure ==
    /\ out.exc \in {"none", "AttributeError"}
    /\ ~ReturnedNone
    /\ NoMatch => out.exc = "AttributeError"

\* A parameter was looked up in a schema without actions.
C20_Witness ==
    /\ fn = "get_action_param"
    /\ arg.p4info.actions = <<>>
    /\ apc = "returned"

\* ---------------------------------------------------------------------------
\* C21  get_match_field_pb sets exactly the member of the oneof that the
\* schema's match type of the field names: EXACT the encoded value, LPM the
\* encoded value and the prefix length, TERNARY the encoded value and mask,
\* RANGE the encoded low and high; field_id is the schema's id of the field;
\* a field of any other match type ends in the exception and no message.
SchemaField(name) ==
    CHOOSE mf \in { P4InfoKinds.tables[1].match_fields[i] :
                        i \in 1..Len(P4InfoKinds.tables[1].match_fields) } : mf.name = name

VariantOf(match_type) ==
    CASE match_type = "EXACT" -> "exact"
      [] match_type = "LPM" -> "lpm"
      [] match_type = "TERNARY" -> "ternary"
      [] match_type = "RANGE" -> "range"
      [] OTHER -> "none"

\* The message for a pair value (v, n) on a field of the schema
PairMessage(mf, v, n) ==
    CASE mf.match_type = "LPM" ->
            [NoFieldMatch EXCEPT !.field_id = mf.id, !.field_match_type = "lpm",
                                 !.value = encode(v, mf.bitwidth).val, !.prefix_len = n.n]
      [] mf.match_type = "TERNARY" ->
            [NoFieldMatch EXCEPT !.field_id = mf.id, !.field_match_type = "ternary",
                                 !.value = encode(v, mf.bitwidth).val,
                                 !.mask = encode(n, mf.bitwidth).val]
      [] mf.match_type = "RANGE" ->
            [NoFieldMatch EXCEPT !.field_id = mf.id, !.field_match_type = "range",
                                 !.low = encode(v, mf.bitwidth).val,
                                 !.high = encode(n, mf.bitwidth).val]

MatchFieldVariant(mf) ==
    IF VariantOf(mf.match_type) = "none"
    THEN out = Raise("Exception")
    ELSE out.exc = "none" =>
           /\ out.val.field_id = mf.id
           /\ out.val.field_match_type = VariantOf(mf.match_type)
           /\ mf.match_type = "EXACT" =>
                  out.val = [NoFieldMatch EXCEPT !.field_id = mf.id,
                                                 !.field_match_type = "exact",
                                                 !.value = encode(arg.x, mf.bitwidth).val]
           /\ (mf.match_type # "EXACT" /\ arg.x.t = "tuple") =>
                  out.val = PairMessage(mf, StrV(arg.x.s), IntV(arg.x.pl))

\* C21: the message get_match_field_pb returns has the schema id of the field
\* and exactly the member of its match type set; any other match type raises.
C21_MatchFieldVariant ==
    (apc = "returned" /\ fn = "get_match_field_pb") => MatchFieldVariant(SchemaField(arg.name))

C21_Witness ==
    /\ apc = "returned"
    /\ fn = "get_match_field_pb"
    /\ SchemaField(arg.name).match_type = "TERNARY"
    /\ arg.x.t = "tuple"
    /\ out.exc = "none"
    /\ out.val.mask # <<>>

\* ---------------------------------------------------------------------------
\* C22  _format_entry writes every bytes component of a match value (the
\* exact value, the LPM value, the ternary value and mask, the range low and
\* high) and every action parameter as "0x" and the hex digits of the bytes;
\* _format_member writes every action parameter as the decimal number its
\* bytes are in big-endian order.
Contains(text, pat) ==
    \E i \in 1..(Len(text) - Len(pat) + 1) : SubSeq(text, i, i + Len(pat) - 1) = pat

EndsWith(text, pat) ==
    /\ Len(text) >= Len(pat)
    /\ SubSeq(text, Len(text) - Len(pat) + 1, Len(text)) = pat

\* The match value with every bytes component in hex
HexMatchText(fm) ==
    CASE fm.field_match_type = "exact" -> decodeToHex(fm.value)
      [] fm.field_match_type = "lpm" ->
            decodeToHex(fm.value) \o << "/" >> \o PyStr(fm.prefix_len)
      [] fm.field_match_type = "ternary" ->
            decodeToHex(fm.value) \o << "/" >> \o decodeToHex(fm.mask)
      [] fm.field_match_type = "range" ->
            decodeToHex(fm.low) \o << "/" >> \o decodeToHex(fm.high)

EntryInHex ==
    /\ back.exc = "none"
    /\ Contains(back.val, << "=" >> \o HexMatchText(out.val) \o << " " >>)
    /\ \E v \in ParamBytes : EndsWith(back.val, << "=" >> \o decodeToHex(v) \o << ")" >>)

MemberInDecimal ==
    /\ back.exc = "none"
    /\ EndsWith(back.val, << "=" >> \o PyStr(decodeNum(out.val.value)) \o << ")" >>)

\* C22: _format_entry writes the bytes of match values and parameters in hex,
\* _format_member writes the parameters as decimal numbers.
C22_DisplayAsymmetry ==
    /\ (apc = "decoded" /\ fn = "get_match_field_pb") => EntryInHex
    /\ (apc = "decoded" /\ fn = "get_action_param_pb") => MemberInDecimal

\* An entry with a ternary match was formatted.
C22_Witness ==
    /\ apc = "decoded"
    /\ fn = "get_match_field_pb"
    /\ out.val.field_match_type = "ternary"
    /\ back.exc = "none"
    /\ ~EntryInHex

\* ---------------------------------------------------------------------------
\* C23  The construction of P4RuntimeWriteException ends: for every details
\* list of a Write failure of code UNKNOWN, entries of canonical code OK
\* included, the iteration that starts on the list comes to its end, and a
\* write exception raised then carries the (index, code, message) of every
\* failed update in order.
C23_IterationEnds ==
    (wpc = "iter" /\ idx = 0 /\ exc_errors = <<>>)
        ~> (/\ wpc = "raised"
            /\ raised.type = "P4RuntimeWriteException" =>
                   raised.errors = ExpectedErrors(it_errors))

\* The iterator has gone through its loop once and stands on the same entry,
\* whose code is OK.
C23_Witness ==
    /\ wpc = "iter"
    /\ idx = 0
    /\ loops = 1
    /\ it_errors[1].p4error
    /\ it_errors[1].canonical_code = "OK"

\* ---------------------------------------------------------------------------
\* C24  When the inbound stream fails, the receiver thread puts one None on
\* stream_in_q, after every message it received, and ends; a get_stream_packet
\* that finds the None returns None at once, before its timeout.
Sentinels == { i \in 1..Len(arrived) : arrived[i] = NoneMsg }

\* At most one None was put, as the last item, and only by the receiver that
\* ended on a failed stream after it had put every message of the stream.
OneSentinel ==
    /\ Cardinality(Sentinels) <= 1
    /\ \A i \in Sentinels : i = Len(arrived)
    /\ (Sentinels # {}) <=> (stream = "failed" /\ recvpc = "done")
    /\ Sentinels # {} => (wire = <<>> /\ Len(arrived) = nsent + 1)

\* The step of get_stream_packet that takes the None returns None, whatever
\* time is left.
SentinelUnblocks ==
    (/\ mainpc = "gsp"
     /\ stream_in_q # <<>>
     /\ Head(stream_in_q) = NoneMsg
     /\ elapsed <= timeout
     /\ dequeued' # dequeued)
        => (mainpc' = "gsp_ret" /\ ret' = NoneMsg /\ elapsed' = elapsed)

\* C24: a failed stream makes the receiver put one None, last, and end; the
\* get_stream_packet that takes it returns None before its timeout.
C24_FailureSentinel ==
    /\ []OneSentinel
    /\ [][SentinelUnblocks]_vars
    /\ (stream = "failed") ~> (recvpc = "done" /\ Sentinels # {})
    /\ (mainpc = "gsp" /\ Sentinels # {}) ~> (mainpc = "gsp_ret")

\* A get_stream_packet with time left has returned None on the None of the
\* receiver, which had put a message before it.
C24_Witness ==
    /\ mainpc = "gsp_ret"
    /\ ret = NoneMsg
    /\ elapsed < timeout
    /\ consumed # <<>>
    /\ consumed[Len(consumed)] = NoneMsg
    /\ Len(arrived) >= 2

\* ---------------------------------------------------------------------------
\* C25  Under every interleaving of the caller thread, the receiver thread
\* and the request generator: the requests reach the stream in the order they
\* were put on stream_out_q, none lost and none twice, up to the None that
\* ends the generator; the messages enter stream_in_q in the order the stream
\* delivered them and get_stream_packet takes them off in that order, so the
\* message it returns arrived before every matching message still queued.

\* What the caller thread has put on stream_out_q so far: the request of
\* handshake, and a None by every tear_down.
Enqueued ==
    IF mainpc \in {"new", "handshake"} THEN <<>>
    ELSE << ArbitrationRequest >> \o [i \in 1..teardowns |-> NoneMsg]

\* What the generator has taken off stream_out_q, in order
Taken == sent \o (IF genpc = "done" THEN << NoneMsg >> ELSE <<>>)

OutboundOrder ==
    /\ Taken \o stream_out_q = Enqueued
    /\ \A i \in 1..Len(sent) : sent[i] # NoneMsg

\* The messages of the stream carry their position as id.
Delivered == SelectSeq(arrived, LAMBDA m : m # NoneMsg) \o wire

InboundOrder ==
    /\ \A i \in 1..Len(Delivered) : Delivered[i].id = i
    /\ arrived = dequeued \o stream_in_q
    /\ (mainpc = "gsp_ret" /\ ret # NoneMsg) =>
           /\ HasField(ret, type_)
           /\ \A i \in 1..Len(stream_in_q) :
                  (stream_in_q[i] # NoneMsg /\ HasField(stream_in_q[i], type_)) =>
                      ret.id < stream_in_q[i].id
           /\ \A i \in 1..Len(dequeued) :
                  dequeued[i] # NoneMsg => dequeued[i].id <= ret.id

\* C25: requests leave and messages enter and leave their queues in order,
\* none lost and none twice.
C25_StreamOrder == OutboundOrder /\ InboundOrder

\* get_stream_packet returned the first of two matching messages while the
\* second was queued, and the generator had handed over the request.
C25_Witness ==
    /\ mainpc = "gsp_ret"
    /\ ret # NoneMsg
    /\ ret.id = 1
    /\ stream_in_q # <<>>
    /\ HasField(stream_in_q[1], type_)
    /\ sent = << ArbitrationRequest >>

\* ---------------------------------------------------------------------------
\* C26  tear_down returns: once the None is on stream_out_q the generator
\* ends, and with a device that then ends the inbound stream the receiver
\* thread ends (stream_in_q has no bound that could block its put, whoever
\* reads it or not), the join completes and the channel is closed; no
\* interleaving of the threads leaves tear_down blocked.
\* What has ended when tear_down has returned
TornDown ==
    /\ channel = "deleted"
    /\ recvpc = "done"
    /\ wire = <<>>
    /\ genpc = "done" \/ stream # "open"

\* C26: with a device that ends the stream after the requests ended, every
\* tear_down returns, the receiver ended and the channel closed.
C26_TearDownReturns ==
    /\ [](mainpc = "closed" => TornDown)
    /\ (mainpc = "td_join") ~> (mainpc = "closed")

\* tear_down has returned after the generator took the None, the device ended
\* the stream, and the receiver had put messages that nobody read.
C26_Witness ==
    /\ mainpc = "closed"
    /\ teardowns = 1
    /\ genpc = "done"
    /\ stream = "ended"
    /\ recvpc = "done"
    /\ Len(stream_in_q) >= 1
    /\ channel = "deleted"

\* ---------------------------------------------------------------------------
\* C27  Every command under with_client constructs one client; when the
\* constructor returned, tear_down is called once, after the body of the
\* command, whether the body returned at its end, returned early on an id of 0
\* or raised, and what the body raised leaves handle after tear_down; when
\* the constructor did not return, tear_down is not called.
ClientLifecycle ==
    /\ cpc \in {"idle", "client", "exit", "called"} => client = "none"
    /\ cpc \in {"parse", "p4info", "build", "write", "decoding"} =>
           (client = "up" /\ result = "none")
    /\ cpc = "teardown" <=> (client = "up" /\ result # "none")
    /\ cpc = "done" <=> client = "down"
    /\ cpc = "done" => result \notin {"none", "SystemExit"}
    /\ cpc = "exit" => result = "SystemExit"

\* client is set by the constructor and torn down by the finally clause, once
\* each, and tear_down leaves the outcome of the body as it is.
ClientSteps ==
    /\ client' # client =>
           \/ cpc = "client" /\ client = "none" /\ client' = "up"
           \/ cpc = "teardown" /\ client = "up" /\ client' = "down" /\ cpc' = "done"
    /\ cpc = "teardown" => result' = result
    /\ cpc \in {"exit", "done"} => UNCHANGED << client, result >>

\* C27: one client per command; tear_down once after a body that ended, the
\* outcome kept; no tear_down when the constructor did not return.
C27_SessionLifecycle == []ClientLifecycle /\ [][ClientSteps]_vars

\* tear_down has run after a body that raised, and the exception is the
\* outcome of the command.
C27_Witness ==
    /\ cpc = "done"
    /\ client = "down"
    /\ result \notin {"none", "returned", "SystemExit"}
    /\ writes = <<>>

\* ---------------------------------------------------------------------------
\* C28  In add-entry, modify-entry, del-entry, set-default-entry and the
\* add / delete commands of members and groups a Write RPC is issued at most
\* once per invocation, and only after get_p4info answered and the entity was
\* built in full; when the parsing of the flow, a lookup in the schema or the
\* encoding of a value fails, the exception is the outcome of the command and
\* no Write is issued; a Write that failed is not issued again.
WriteFailures == {"RpcError", "P4RuntimeWriteException"}

OneWrite ==
    /\ Len(writes) <= 1
    /\ writes # <<>> =>
           /\ npipe = 1
           /\ built = "ok"
           /\ writes[1] = [type |-> UpdateType(command), entity |-> entity]
           /\ result \in {"none", "returned"} \cup WriteFailures
           /\ cpc \in {"teardown", "done", "decoding"}
    /\ (cpc \in {"teardown", "done"} /\ result \notin {"returned"} \cup WriteFailures) =>
           writes = <<>>
    /\ built = "failed" =>
           (writes = <<>> /\ cpc \in {"teardown", "done", "called"} /\ result # "returned")
    /\ printed # <<>> => writes = <<>>
    /\ cpc = "write" => (writes = <<>> /\ built = "ok" /\ npipe = 1)

\* The Write is the step of write_update, taken once; after it the command
\* only ends.
WriteSteps ==
    /\ writes' # writes => (cpc = "write" /\ writes = <<>> /\ cpc' # "write")
    /\ writes # <<>> => (writes' = writes /\ result' = result /\ cpc' # "write")

\* C28: at most one Write per command, after get_p4info and the builder; none
\* after a failure of parsing, lookup or encoding; none repeated.
C28_NoWriteOnFailure == []OneWrite /\ [][WriteSteps]_vars

\* A command has ended on a value that does not fit its field: the schema
\* was fetched, the builder raised, and no Write went out.
C28_Witness ==
    /\ cpc = "done"
    /\ npipe = 1
    /\ built = "failed"
    /\ result = "Exception"
    /\ writes = <<>>

\* ---------------------------------------------------------------------------
\* C29  _format_entry covers what buildTableEntry makes: for every entry the
\* builder returns for a schema, with an action, a member id or a group id,
\* _format_entry with that schema returns a text that names the table of the
\* entry and each of its match fields; so dump-entries prints every entry and
\* does not end on one that refers to a member or a group.
FieldNamesIn(text, p4info, table_id, match) ==
    \A i \in 1..Len(match) :
        \E mf \in { MatchFieldsOf(p4info.tables, get_name(p4info, "tables", table_id).val)[j] :
                       j \in 1..Len(MatchFieldsOf(p4info.tables,
                                                  get_name(p4info, "tables", table_id).val)) } :
            /\ mf.id = match[i].field_id
            /\ Contains(text, mf.name \o << "=" >>)

EntryFormatted(text, p4info, te) ==
    /\ Contains(text, << "t", "a", "b", "l", "e", "=" >>
                          \o get_name(p4info, "tables", te.table_id).val)
    /\ FieldNamesIn(text, p4info, te.table_id, te.match)

\* C29: every entry buildTableEntry made is formatted, with its table and its
\* match fields named.
C29_FormatterCoversBuilder ==
    cpc = "formatted" =>
        /\ result = "returned"
        /\ printed # <<>>
        /\ EntryFormatted(printed[Len(printed)], pipeline, entity.te)

\* The formatter has come to an entry that refers to a member.
C29_Witness ==
    /\ cpc = "formatted"
    /\ entity.te.action.type = "action_profile_member_id"
    /\ entity.te.match # <<>>
    /\ result = "AttributeError"
    /\ printed = <<>>

\* ---------------------------------------------------------------------------
\* C30  Names resolve alike in every lookup of the schema: a table name T
\* that get_id("tables", T) finds, preamble name or alias, is found by
\* get_match_field(T, ...) as the same table, and an action name A that
\* get_id("actions", A) finds is found by get_action_params(A) and
\* get_action_param(A, ...) as the same action; so buildTableEntry with an
\* alias builds what it builds with the preamble name, or fails with both.
SameTable(t) ==
    t.exc = "none" => out = NamedIn(t.val.match_fields, arg.name)

SameActionParams(a) ==
    a.exc = "none" => out = Ok([none |-> FALSE, params |-> a.val.params])

SameActionParam(a) ==
    a.exc = "none" => out = NamedIn(a.val.params, arg.name)

\* The preamble name of what get finds under name n, n itself when it finds
\* nothing
Canonical(p4info, entity_type, n) ==
    IF get_by_name(p4info, entity_type, n).exc = "none"
    THEN get_by_name(p4info, entity_type, n).val.preamble.name
    ELSE n

SameEntry ==
    out = buildTableEntry(arg.p4info, Canonical(arg.p4info, "tables", arg.owner),
                          arg.match_fields, FALSE,
                          Canonical(arg.p4info, "actions", arg.name),
                          arg.action_params, 0, 0)

\* C30: a name that get_id finds is found as the same table or action by the
\* field and parameter lookups, and buildTableEntry builds alike with both.
C30_UniformResolution ==
    /\ fn = "get_match_field" => SameTable(get_by_name(arg.p4info, "tables", arg.owner))
    /\ fn = "get_action_params" =>
           SameActionParams(get_by_name(arg.p4info, "actions", arg.owner))
    /\ fn = "get_action_param" =>
           SameActionParam(get_by_name(arg.p4info, "actions", arg.owner))
    /\ fn = "buildTableEntry" => SameEntry

\* The field f was looked up in the table under its alias, which get_id finds.
C30_Witness ==
    /\ fn = "get_match_field"
    /\ arg.owner = << "T" >>
    /\ arg.name = << "f" >>
    /\ get_id(arg.p4info, "tables", arg.owner) = Ok(11)
    /\ out.exc = "AttributeError"
====
